---------------------------- MODULE Spec2Model ----------------------------
(***************************************************************************)
(* Model of the session-scoped indexing, caching and search subsystem of   *)
(* Swagger-MCP.                                                            *)
(*                                                                         *)
(*   MemoryOptimizedCache  src/src/cache/MemoryOptimizedCache.ts           *)
(*   SessionConfigManager  src/unnamed/part_006                            *)
(*   IndexedSwaggerLoader  src/src/cache/IndexedSwaggerLoader.ts           *)
(*   SwaggerSearchTool     src/unnamed/part_001                            *)
(*                                                                         *)
(* Time is counted in units of thirty minutes, the TTL of the indexes, so   *)
(* that the index TTL is 1.  The default session TTL (10 minutes) is       *)
(* shorter than one unit: between two instants of this clock, an age       *)
(* exceeds 10 minutes exactly when it exceeds 0 units.  The clock starts   *)
(* at 1: Date.now() is never 0, which the code's `||' defaults would take  *)
(* for a missing value.                                                    *)
(***************************************************************************)
EXTENDS Integers, Sequences, FiniteSets, TLC

VARIABLES
    now,        \* Date.now() / performance.now(), in units of thirty minutes
    cache,      \* a MemoryOptimizedCache<T> instance (lruCache + stats)
    sessions,   \* SessionConfigManager.sessions, a Map in insertion order
    indexCache, \* SwaggerSearchTool.indexCache, a MemoryOptimizedCache<APIIndex>
    loader,     \* IndexedSwaggerLoader: indexCache, metadataCache,
                \* documentMetadataCache, and the endpoint files in cacheDir
    calls,      \* the facade calls in progress, each suspended at an await
    fetches,    \* the number of document fetches started so far
    last        \* the last call made: its name, arguments and what it returned

vars == <<now, cache, sessions, indexCache, loader, calls, fetches, last>>

\* the state of the search facade
svcVars == <<indexCache, loader, calls, fetches>>

-----------------------------------------------------------------------------
(* Bounds of the model *)

\* the clock of the cache on its own stops here
MaxCacheTime == 3

\* calls counted by the cache's statistics (sets + hits + misses)
MaxOps == 3

\* maxSize of the cache instance under test (CacheOptions.maxSize)
CacheMax == 2

\* CacheOptions.ttl of the cache instance under test
CacheTTL == 1

CacheKeys == {"a", "b", "c"}

CacheValues == {"x"}

\* the ttl argument of set(): 0 stands for "not given"
TtlArgs == {0, 2}

None == "none"

\* maxSize of SwaggerSearchTool.indexCache (50 in the code)
IndexCacheMax == 1

\* ttl of SwaggerSearchTool.indexCache: 30 minutes
IndexCacheTTL == 1

\* the ttl of isIndexExpired: 30 minutes
LoaderIndexTTL == 1

\* the lifetime loadMetadata gives DocumentMetadata.expiresAt: 30 minutes
DocMetaTTL == 1

Urls == {"u1"}

\* the session ids the facade is called with
CallSessionIds == {"s1"}


\* the callers whose facade calls may overlap
Callers == {"c1", "c2"}

Idle == [pc |-> "idle"]

NewLoader == [index |-> <<>>, meta |-> <<>>, docMeta |-> <<>>, disk |-> <<>>]

-----------------------------------------------------------------------------
(* lru-cache as MemoryOptimizedCache configures it: max, ttl,              *)
(* updateAgeOnGet: true, allowStale: false, dispose callback.              *)
(*   c.order : keys from least to most recently used                       *)
(*   c.ent   : key -> CacheEntry, plus `start', lru-cache's own age stamp  *)
(* Every Lru operation returns the new cache and the list of dispose       *)
(* calls it made, each with lru-cache's reason.                            *)

SeqRemove(s, k) == SelectSeq(s, LAMBDA x : x # k)

Drop(f, k) == [x \in (DOMAIN f) \ {k} |-> f[x]]

Put(f, k, v) == [x \in (DOMAIN f) \cup {k} |-> IF x = k THEN v ELSE f[x]]

NewCache(max, ttl) ==
    [max |-> max, ttl |-> ttl, order |-> <<>>, ent |-> <<>>,
     stats |-> [hits |-> 0, misses |-> 0, sets |-> 0, deletes |-> 0, evictions |-> 0]]

Held(c, k) == k \in DOMAIN c.ent

LruSize(c) == Len(c.order)

\* lru-cache isStale: the entry's age, counted from its last set or get
LruIsStale(c, k, t) == t - c.ent[k].start > c.ttl

LruRemove(c, k) == [c EXCEPT !.order = SeqRemove(@, k), !.ent = Drop(@, k)]

\* the dispose callback: one more "eviction" per call, whatever the reason
Dispose(c, disposed) ==
    [c EXCEPT !.stats.evictions = @ + Len(disposed)]

LruDelete(c, k) ==
    IF Held(c, k)
    THEN [cache |-> Dispose(LruRemove(c, k), <<[key |-> k, reason |-> "delete"]>>),
          deleted |-> TRUE,
          disposed |-> <<[key |-> k, reason |-> "delete"]>>]
    ELSE [cache |-> c, deleted |-> FALSE, disposed |-> <<>>]

\* lruCache.get(key): a stale entry is deleted and reported absent; a live
\* one becomes the most recently used and its age restarts (updateAgeOnGet)
LruGet(c, k, t) ==
    IF ~Held(c, k)
    THEN [cache |-> c, found |-> FALSE, disposed |-> <<>>]
    ELSE IF LruIsStale(c, k, t)
    THEN [cache |-> Dispose(LruRemove(c, k), <<[key |-> k, reason |-> "expire"]>>),
          found |-> FALSE,
          disposed |-> <<[key |-> k, reason |-> "expire"]>>]
    ELSE [cache |-> [c EXCEPT !.order = Append(SeqRemove(@, k), k),
                              !.ent[k].start = t],
          found |-> TRUE,
          disposed |-> <<>>]

\* LruSet without the capacity check: a full cache grows
LruSetNoEvict(c, k, e, t) ==
    IF Held(c, k)
    THEN [cache |-> Dispose([c EXCEPT !.order = Append(SeqRemove(@, k), k),
                                      !.ent[k] = e],
                            <<[key |-> k, reason |-> "set"]>>),
          disposed |-> <<[key |-> k, reason |-> "set"]>>]
    ELSE [cache |-> [c EXCEPT !.order = Append(@, k), !.ent = Put(@, k, e)],
          disposed |-> <<>>]

\* lruCache.set(key, entry): an overwrite disposes the old value; a new key
\* in a full cache evicts the least recently used entry first
LruSet(c, k, e, t) ==
    IF Held(c, k)
    THEN [cache |-> Dispose([c EXCEPT !.order = Append(SeqRemove(@, k), k),
                                      !.ent[k] = e],
                            <<[key |-> k, reason |-> "set"]>>),
          disposed |-> <<[key |-> k, reason |-> "set"]>>]
    ELSE IF LruSize(c) >= c.max
    THEN LET victim == Head(c.order)
             c1 == LruRemove(c, victim)
         IN  [cache |-> Dispose([c1 EXCEPT !.order = Append(@, k),
                                           !.ent = Put(@, k, e)],
                                <<[key |-> victim, reason |-> "evict"]>>),
              disposed |-> <<[key |-> victim, reason |-> "evict"]>>]
    ELSE [cache |-> [c EXCEPT !.order = Append(@, k), !.ent = Put(@, k, e)],
          disposed |-> <<>>]

\* lruCache.clear(): every entry is disposed
LruClear(c) ==
    LET d == [i \in 1..Len(c.order) |-> [key |-> c.order[i], reason |-> "delete"]]
    IN  [cache |-> Dispose([c EXCEPT !.order = <<>>, !.ent = <<>>], d),
         disposed |-> d]

-----------------------------------------------------------------------------
(* MemoryOptimizedCache *)

\* isExpired(entry)
IsExpired(e, t) == t - e.timestamp > e.ttl

\* performCleanup(): lruCache.entries() skips the entries lru-cache holds
\* stale; of the others, the expired ones are deleted
RECURSIVE CleanupKeys(_, _, _)
CleanupKeys(c, ks, t) ==
    IF ks = <<>>
    THEN [cache |-> c, cleaned |-> 0, disposed |-> <<>>]
    ELSE LET k == Head(ks)
         IN  IF Held(c, k) /\ ~LruIsStale(c, k, t) /\ IsExpired(c.ent[k], t)
             THEN LET d == LruDelete(c, k)
                      r == CleanupKeys(d.cache, Tail(ks), t)
                  IN  [cache |-> r.cache, cleaned |-> r.cleaned + 1,
                       disposed |-> d.disposed \o r.disposed]
             ELSE CleanupKeys(c, Tail(ks), t)

PerformCleanup(c, t) == CleanupKeys(c, c.order, t)

\* get(key)
CacheGet(c, k, t) ==
    LET g == LruGet(c, k, t)
    IN  IF ~g.found
        THEN [cache |-> [g.cache EXCEPT !.stats.misses = @ + 1],
              hit |-> FALSE, value |-> None, disposed |-> g.disposed]
        ELSE IF IsExpired(g.cache.ent[k], t)
        THEN LET d == LruDelete(g.cache, k)
             IN  [cache |-> [d.cache EXCEPT !.stats.misses = @ + 1],
                  hit |-> FALSE, value |-> None, disposed |-> d.disposed]
        ELSE [cache |-> [g.cache EXCEPT !.ent[k].lastAccessed = t,
                                        !.stats.hits = @ + 1],
              hit |-> TRUE, value |-> g.cache.ent[k].data, disposed |-> <<>>]

\* set(key, data, ttl?): nearLimit is isNearMemoryLimit() at the call
CacheSet(c, k, data, ttl, t, nearLimit) ==
    LET entry == [data |-> data, timestamp |-> t,
                  ttl |-> IF ttl # 0 THEN ttl ELSE c.ttl,
                  lastAccessed |-> t, start |-> t]
        p == IF nearLimit THEN PerformCleanup(c, t)
                          ELSE [cache |-> c, cleaned |-> 0, disposed |-> <<>>]
        s == LruSet(p.cache, k, entry, t)
    IN  [cache |-> [s.cache EXCEPT !.stats.sets = @ + 1],
         disposed |-> p.disposed \o s.disposed]

\* delete(key)
CacheDelete(c, k) ==
    LET d == LruDelete(c, k)
    IN  [cache |-> IF d.deleted THEN [d.cache EXCEPT !.stats.deletes = @ + 1]
                                ELSE d.cache,
         deleted |-> d.deleted, disposed |-> d.disposed]

\* has(key): reads through lruCache.get, so it refreshes recency and age
CacheHas(c, k, t) ==
    LET g == LruGet(c, k, t)
    IN  IF ~g.found
        THEN [cache |-> g.cache, has |-> FALSE, disposed |-> g.disposed]
        ELSE IF IsExpired(g.cache.ent[k], t)
        THEN LET d == LruDelete(g.cache, k)
             IN  [cache |-> d.cache, has |-> FALSE, disposed |-> d.disposed]
        ELSE [cache |-> g.cache, has |-> TRUE, disposed |-> <<>>]

\* a clear() that leaves the entries in place
CacheClearNothing(c) == [cache |-> c, disposed |-> <<>>]

\* clear()
CacheClear(c) == LruClear(c)

\* getStats().size
CacheSize(c) == LruSize(c)

-----------------------------------------------------------------------------
(* The cache on its own: any sequence of calls, the clock and the timer *)

Counted(c) == c.stats.sets + c.stats.hits + c.stats.misses

NoCall == [op |-> "init", key |-> None, value |-> None, ok |-> FALSE, disposed |-> <<>>]

InitCache ==
    /\ now = 1
    /\ cache = NewCache(CacheMax, CacheTTL)
    /\ sessions = <<>>
    /\ indexCache = NewCache(IndexCacheMax, IndexCacheTTL)
    /\ loader = NewLoader
    /\ calls = [c \in Callers |-> Idle]
    /\ fetches = 0
    /\ last = NoCall

Tick ==
    /\ now < MaxCacheTime
    /\ now' = now + 1
    /\ UNCHANGED <<cache, sessions, svcVars, last>>

Get(k) ==
    /\ Counted(cache) < MaxOps
    /\ LET r == CacheGet(cache, k, now)
       IN  /\ cache' = r.cache
           /\ last' = [op |-> "get", key |-> k, value |-> r.value,
                       ok |-> r.hit, disposed |-> r.disposed]
    /\ UNCHANGED <<now, sessions, svcVars>>

Set(k, v, ttl, nearLimit) ==
    /\ Counted(cache) < MaxOps
    /\ LET r == CacheSet(cache, k, v, ttl, now, nearLimit)
       IN  /\ cache' = r.cache
           /\ last' = [op |-> "set", key |-> k, value |-> v,
                       ok |-> TRUE, disposed |-> r.disposed]
    /\ UNCHANGED <<now, sessions, svcVars>>

Delete(k) ==
    /\ LET r == CacheDelete(cache, k)
       IN  /\ cache' = r.cache
           /\ last' = [op |-> "delete", key |-> k, value |-> None,
                       ok |-> r.deleted, disposed |-> r.disposed]
    /\ UNCHANGED <<now, sessions, svcVars>>

Has(k) ==
    /\ LET r == CacheHas(cache, k, now)
       IN  /\ cache' = r.cache
           /\ last' = [op |-> "has", key |-> k, value |-> None,
                       ok |-> r.has, disposed |-> r.disposed]
    /\ UNCHANGED <<now, sessions, svcVars>>

Clear ==
    /\ LET r == CacheClear(cache)
       IN  /\ cache' = r.cache
           /\ last' = [op |-> "clear", key |-> None, value |-> None,
                       ok |-> TRUE, disposed |-> r.disposed]
    /\ UNCHANGED <<now, sessions, svcVars>>

\* the cleanup timer
CleanupTimer ==
    /\ LET r == PerformCleanup(cache, now)
       IN  /\ cache' = r.cache
           /\ last' = [op |-> "cleanup", key |-> None, value |-> None,
                       ok |-> r.cleaned > 0, disposed |-> r.disposed]
    /\ UNCHANGED <<now, sessions, svcVars>>

NextCache ==
    \/ Tick
    \/ \E k \in CacheKeys : Get(k)
    \/ \E k \in CacheKeys, v \in CacheValues, ttl \in TtlArgs, nl \in BOOLEAN :
          Set(k, v, ttl, nl)
    \/ \E k \in CacheKeys : Delete(k)
    \/ \E k \in CacheKeys : Has(k)
    \/ Clear
    \/ CleanupTimer

SpecCache == InitCache /\ [][NextCache]_vars

-----------------------------------------------------------------------------
(* Claims about the cache (SpecCache) *)

\* a step taken by a cache call (the clock stands still during a call)
CacheCallStep == now' = now

Evictions(c) == c.stats.evictions

Reasons(disposed) == {disposed[i].reason : i \in 1..Len(disposed)}

OldestLastAccessed(c, k) ==
    \A j \in DOMAIN c.ent : c.ent[k].lastAccessed <= c.ent[j].lastAccessed

\* C4: a set of a new key into a cache that holds the configured maximum
\* number of entries (and that cleans nothing up under memory pressure)
\* evicts exactly one entry, and that entry has the oldest lastAccessed among
\* the entries held before the call.
C4_EvictsOldestLastAccessed ==
    [][(/\ CacheCallStep
        /\ last'.op = "set"
        /\ ~Held(cache, last'.key)
        /\ CacheSize(cache) = cache.max
        /\ "delete" \notin Reasons(last'.disposed))
       => /\ Len(last'.disposed) = 1
          /\ last'.disposed[1].reason = "evict"
          /\ Held(cache, last'.disposed[1].key)
          /\ ~Held(cache', last'.disposed[1].key)
          /\ CacheSize(cache') = cache.max
          /\ OldestLastAccessed(cache, last'.disposed[1].key)]_vars

\* C5: stats().evictions counts evictions: it grows by exactly one when a
\* set evicts an entry, and delete(key), clear() and a set that overwrites an
\* existing key leave it unchanged.
C5_EvictionsCountEvictions ==
    [][CacheCallStep =>
         /\ (last'.op = "set" /\ Reasons(last'.disposed) = {"evict"})
               => Evictions(cache') = Evictions(cache) + 1
         /\ (last'.op = "set" /\ Reasons(last'.disposed) = {"set"})
               => Evictions(cache') = Evictions(cache)
         /\ last'.op \in {"delete", "clear"}
               => Evictions(cache') = Evictions(cache)]_vars

\* C6: the cache never holds more entries than its configured maximum.
C6_SizeWithinMax ==
    /\ CacheSize(cache) <= cache.max
    /\ Cardinality(DOMAIN cache.ent) <= cache.max

\* C6 witness: a set has just evicted an entry from a full cache, which is
\* full again.
C6_Witness ==
    /\ last.op = "set"
    /\ "evict" \in Reasons(last.disposed)
    /\ CacheSize(cache) = cache.max

\* C7: get(key) on a held entry with now - createdAt > ttl reports absent,
\* removes the entry and counts one miss and no hit; get on a held entry that
\* is not expired returns its value and counts one hit and no miss.
C7_GetExpiredOrHit ==
    [][(CacheCallStep /\ last'.op = "get" /\ Held(cache, last'.key))
       => IF IsExpired(cache.ent[last'.key], now)
          THEN /\ last'.value = None
               /\ ~Held(cache', last'.key)
               /\ ~CacheHas(cache', last'.key, now).has
               /\ CacheSize(cache') = CacheSize(cache) - 1
               /\ cache'.stats.misses = cache.stats.misses + 1
               /\ cache'.stats.hits = cache.stats.hits
          ELSE /\ last'.value = cache.ent[last'.key].data
               /\ cache'.stats.hits = cache.stats.hits + 1
               /\ cache'.stats.misses = cache.stats.misses]_vars

-----------------------------------------------------------------------------
(* SessionConfigManager.  `ss' is the sessions Map: the sessions in         *)
(* insertion order, each [id, settings, cacheTTL, createdAt, lastAccessed,  *)
(* isActive]; settings stands for the swaggerUrls, customHeaders and        *)
(* rateLimit the session was configured with.                               *)

SessionIds == {"s1", "s2", "s3"}

\* GlobalConfig.maxSessions of the registry under test
MaxSessions == 2

\* GlobalConfig.defaultCacheTTL: 10 minutes, less than one unit
DefaultCacheTTL == 0

\* SwaggerConfig.cacheTTL given to createOrUpdateSession: 0 stands for "not given"
SessionTtlArgs == {0, 1}

\* the (swaggerUrls, customHeaders, rateLimit) a session is configured with
Settings == {"k1", "k2"}

\* the SwaggerConfig values createOrUpdateSession is called with
SwaggerConfigs == [settings : Settings, cacheTTL : SessionTtlArgs]

\* the same with one choice of settings
PlainConfigs == [settings : {"k1"}, cacheTTL : SessionTtlArgs]

\* the clock of the registry on its own stops here
MaxSessionTime == 2

HasSession(ss, id) == \E i \in 1..Len(ss) : ss[i].id = id

SessionAt(ss, id) == CHOOSE i \in 1..Len(ss) : ss[i].id = id

Lookup(ss, id) == ss[SessionAt(ss, id)]

SessionsDelete(ss, id) == SelectSeq(ss, LAMBDA x : x.id # id)

SessionsSet(ss, rec) ==
    IF HasSession(ss, rec.id)
    THEN [ss EXCEPT ![SessionAt(ss, rec.id)] = rec]
    ELSE Append(ss, rec)

\* removeOldestInactiveSession(): the scan starts from oldestTime = now and
\* keeps the first inactive session strictly older than the best so far
RECURSIVE OldestInactive(_, _, _, _)
OldestInactive(ss, i, oldestTime, oldest) ==
    IF i > Len(ss)
    THEN oldest
    ELSE IF ~ss[i].isActive /\ ss[i].lastAccessed < oldestTime
    THEN OldestInactive(ss, i + 1, ss[i].lastAccessed, ss[i].id)
    ELSE OldestInactive(ss, i + 1, oldestTime, oldest)

RemoveOldestInactiveSession(ss, t) ==
    LET oldest == OldestInactive(ss, 1, t, None)
    IN  IF oldest # None THEN SessionsDelete(ss, oldest) ELSE ss

\* createOrUpdateSession stamping createdAt anew on every call
CreateOrUpdateSessionRestamped(ss, id, config, t) ==
    LET rec == [id |-> id,
                settings |-> config.settings,
                cacheTTL |-> IF config.cacheTTL # 0 THEN config.cacheTTL
                             ELSE DefaultCacheTTL,
                createdAt |-> t,
                lastAccessed |-> t,
                isActive |-> TRUE]
    IN  [sessions |-> SessionsSet(ss, rec), session |-> rec,
         existed |-> HasSession(ss, id)]

\* createOrUpdateSession(sessionId, config)
CreateOrUpdateSession(ss, id, config, t) ==
    LET existing == HasSession(ss, id)
        rec == [id |-> id,
                settings |-> config.settings,
                cacheTTL |-> IF config.cacheTTL # 0 THEN config.cacheTTL
                             ELSE DefaultCacheTTL,
                createdAt |-> IF existing /\ Lookup(ss, id).createdAt # 0
                              THEN Lookup(ss, id).createdAt ELSE t,
                lastAccessed |-> t,
                isActive |-> TRUE]
        ss1 == IF ~existing /\ Len(ss) >= MaxSessions
               THEN RemoveOldestInactiveSession(ss, t) ELSE ss
    IN  [sessions |-> SessionsSet(ss1, rec), session |-> rec, existed |-> existing]

\* getSession(sessionId): a found session is touched
GetSession(ss, id, t) ==
    IF HasSession(ss, id)
    THEN LET ss1 == [ss EXCEPT ![SessionAt(ss, id)].lastAccessed = t]
         IN  [sessions |-> ss1, found |-> TRUE, session |-> Lookup(ss1, id)]
    ELSE [sessions |-> ss, found |-> FALSE, session |-> None]

\* updateAccessTime(sessionId)
UpdateAccessTime(ss, id, t) ==
    IF HasSession(ss, id)
    THEN [sessions |-> [ss EXCEPT ![SessionAt(ss, id)].lastAccessed = t], ok |-> TRUE]
    ELSE [sessions |-> ss, ok |-> FALSE]

\* deactivateSession(sessionId)
DeactivateSession(ss, id) ==
    IF HasSession(ss, id)
    THEN [sessions |-> [ss EXCEPT ![SessionAt(ss, id)].isActive = FALSE], ok |-> TRUE]
    ELSE [sessions |-> ss, ok |-> FALSE]

\* removeSession(sessionId)
RemoveSession(ss, id) ==
    [sessions |-> SessionsDelete(ss, id), ok |-> HasSession(ss, id)]

\* the expiry test without its isActive part: a deactivated session is kept
\* until it expires
SessionExpiredIgnoringActive(x, t) ==
    LET age == t - x.lastAccessed
        sessionTTL == IF x.cacheTTL # 0 THEN x.cacheTTL ELSE DefaultCacheTTL
    IN  age > sessionTTL

\* the expiry test without its age part: only a deactivated session goes
SessionExpiredOnlyInactive(x, t) == ~x.isActive

\* the test of cleanupExpiredSessions: age > sessionTTL || !isActive
SessionExpired(x, t) ==
    LET age == t - x.lastAccessed
        sessionTTL == IF x.cacheTTL # 0 THEN x.cacheTTL ELSE DefaultCacheTTL
    IN  age > sessionTTL \/ ~x.isActive

\* cleanupExpiredSessions()
CleanupExpiredSessions(ss, t) ==
    LET kept == SelectSeq(ss, LAMBDA x : ~SessionExpired(x, t))
    IN  [sessions |-> kept, removedCount |-> Len(ss) - Len(kept)]

-----------------------------------------------------------------------------
(* The registry on its own: any sequence of calls, the clock and the timer *)

InitSessions == InitCache

SessionTick ==
    /\ now < MaxSessionTime
    /\ now' = now + 1
    /\ UNCHANGED <<cache, sessions, svcVars, last>>

DoCreateOrUpdateSession(id, config) ==
    /\ LET r == CreateOrUpdateSession(sessions, id, config, now)
       IN  /\ sessions' = r.sessions
           /\ last' = [op |-> "createOrUpdateSession", id |-> id,
                       config |-> config, existed |-> r.existed]
    /\ UNCHANGED <<now, cache, svcVars>>

DoGetSession(id) ==
    /\ LET r == GetSession(sessions, id, now)
       IN  /\ sessions' = r.sessions
           /\ last' = [op |-> "getSession", id |-> id, found |-> r.found]
    /\ UNCHANGED <<now, cache, svcVars>>

DoUpdateAccessTime(id) ==
    /\ LET r == UpdateAccessTime(sessions, id, now)
       IN  /\ sessions' = r.sessions
           /\ last' = [op |-> "updateAccessTime", id |-> id, ok |-> r.ok]
    /\ UNCHANGED <<now, cache, svcVars>>

DoDeactivateSession(id) ==
    /\ LET r == DeactivateSession(sessions, id)
       IN  /\ sessions' = r.sessions
           /\ last' = [op |-> "deactivateSession", id |-> id, ok |-> r.ok]
    /\ UNCHANGED <<now, cache, svcVars>>

DoRemoveSession(id) ==
    /\ LET r == RemoveSession(sessions, id)
       IN  /\ sessions' = r.sessions
           /\ last' = [op |-> "removeSession", id |-> id, ok |-> r.ok]
    /\ UNCHANGED <<now, cache, svcVars>>

\* the cleanup timer, or a direct call of cleanupExpiredSessions()
DoCleanupExpiredSessions ==
    /\ LET r == CleanupExpiredSessions(sessions, now)
       IN  /\ sessions' = r.sessions
           /\ last' = [op |-> "cleanupExpiredSessions",
                       removedCount |-> r.removedCount]
    /\ UNCHANGED <<now, cache, svcVars>>

NextSessions ==
    \/ SessionTick
    \/ \E id \in SessionIds, config \in PlainConfigs :
          DoCreateOrUpdateSession(id, config)
    \/ \E id \in SessionIds : DoGetSession(id)
    \/ \E id \in SessionIds : DoUpdateAccessTime(id)
    \/ \E id \in SessionIds : DoDeactivateSession(id)
    \/ \E id \in SessionIds : DoRemoveSession(id)
    \/ DoCleanupExpiredSessions

SpecSessions == InitSessions /\ [][NextSessions]_vars

\* sessions configured and configured again, with every SwaggerConfig
ReconfiguredIds == {"s1", "s2"}

NextConfigure ==
    \/ SessionTick
    \/ \E id \in ReconfiguredIds, config \in SwaggerConfigs :
          DoCreateOrUpdateSession(id, config)
    \/ \E id \in ReconfiguredIds : DoGetSession(id)
    \/ \E id \in ReconfiguredIds : DoDeactivateSession(id)
    \/ DoCleanupExpiredSessions

SpecConfigure == InitSessions /\ [][NextConfigure]_vars

-----------------------------------------------------------------------------
(* Claims about the registry (SpecSessions) *)

SessionTTLOf(x) == IF x.cacheTTL # 0 THEN x.cacheTTL ELSE DefaultCacheTTL

\* C10: immediately after the sweep runs at time t the registry holds
\* exactly the sessions that were active and had t - lastAccessed <= cacheTTL
\* before it, unchanged and in their order, and the count returned is the
\* number of sessions removed.
C10_SweepRemovesExactlyExpired ==
    [][(now' = now /\ last'.op = "cleanupExpiredSessions")
       => /\ sessions' = SelectSeq(sessions,
                LAMBDA x : x.isActive /\ now - x.lastAccessed <= SessionTTLOf(x))
          /\ last'.removedCount = Len(sessions) - Len(sessions')]_vars

\* C10 witness: a sweep has just removed a session and kept another
C10_Witness ==
    /\ last.op = "cleanupExpiredSessions"
    /\ last.removedCount >= 1
    /\ Len(sessions) >= 1

IdsOf(ss) == {ss[i].id : i \in 1..Len(ss)}

InactiveIn(ss) == {ss[i] : i \in {j \in 1..Len(ss) : ~ss[j].isActive}}

\* C13: createOrUpdateSession of a new id into a registry holding
\* maxSessions sessions removes exactly one session, an inactive one with
\* the oldest lastAccessed among the inactive, whenever an inactive session
\* exists, and removes nothing when none is inactive; the new session is
\* inserted either way; updating an existing id removes nothing.
C13_EvictsOldestInactive ==
    [][(now' = now /\ last'.op = "createOrUpdateSession")
       => LET id == last'.id
              removed == IdsOf(sessions) \ IdsOf(sessions')
          IN  /\ id \in IdsOf(sessions')
              /\ IdsOf(sessions') \subseteq IdsOf(sessions) \cup {id}
              /\ (id \in IdsOf(sessions) \/ Len(sessions) < MaxSessions)
                    => removed = {}
              /\ (id \notin IdsOf(sessions) /\ Len(sessions) >= MaxSessions)
                    => IF InactiveIn(sessions) = {}
                       THEN removed = {}
                       ELSE \E x \in InactiveIn(sessions) :
                              /\ removed = {x.id}
                              /\ \A y \in InactiveIn(sessions) :
                                    x.lastAccessed <= y.lastAccessed]_vars

\* The registry with its timers: setInterval keeps firing the sweep
\* (startCleanupTimer), and time passes.
LiveSessions ==
    SpecSessions /\ WF_vars(SessionTick) /\ WF_vars(DoCleanupExpiredSessions)

\* no session in the registry is deactivated or past its TTL
NoExpiredSession ==
    \A i \in 1..Len(sessions) :
        /\ sessions[i].isActive
        /\ now - sessions[i].lastAccessed <= SessionTTLOf(sessions[i])

\* C11: a session that is deactivated or past its TTL, and that no call
\* touches again, is eventually removed: a session that is not touched
\* stays expired, and again and again the registry holds no expired session.
C11_UntouchedSessionIsRemoved == []<>NoExpiredSession

\* C11 witness: at the end of the clock a sweep has removed the sessions,
\* none of which was touched at that time
C11_Witness ==
    /\ last.op = "cleanupExpiredSessions"
    /\ last.removedCount = MaxSessions
    /\ now = MaxSessionTime
    /\ sessions = <<>>

-----------------------------------------------------------------------------
(* IndexedSwaggerLoader and SwaggerSearchTool.                              *)
(* An APIIndex is [timestamp, fetch]: the time createIncrementalIndex       *)
(* stamped it with and the number of the document fetch it was built from.  *)
(* A call in progress is suspended at one of its awaits:                    *)
(*   "fetch"     loadMetadata's axios.get                                   *)
(*   "persist"   persistIndex's fs.writeFile                                *)
(*   "details"   the loadEndpointDetails calls of getEndpointDetails        *)
(*   "clearDisk" the directory scan of IndexedSwaggerLoader.clearCache      *)

\* document fetches started, over all facade calls
MaxFetches == 3

\* the clock of the facade stops here
MaxServiceTime == 3

\* the clock of the facade with overlapping calls stops here
MaxConcurrentTime == 2

\* the clock of the endpoint details stops here
MaxDetailsTime == 2

\* the lifetime of an endpoint file (loadEndpointFromDisk): 30 minutes
EndpointMemoTTL == 1

\* the method names a lookup is made with, in the caller's spelling
MethodArgs == {"GET", "get", "post"}

ToLowerCase(m) == IF m = "GET" THEN "get" ELSE m

ToUpperCase(m) == IF m = "get" THEN "GET" ELSE IF m = "post" THEN "POST" ELSE m

\* the operations a fetched document may hold in its paths table, and the
\* documents a fetch may return
Operations == {<<"/a", "get">>, <<"b", "get">>}

Docs == SUBSET Operations

\* what loadFullSwaggerDocument does: it throws, or returns response.data
\* unexamined, a document with a paths object or one without
NoFetch == [ok |-> FALSE, hasPaths |-> FALSE, paths |-> {}]

NoPaths == [ok |-> TRUE, hasPaths |-> FALSE, paths |-> {}]

FetchResults ==
    {NoFetch, NoPaths} \cup {[ok |-> TRUE, hasPaths |-> TRUE, paths |-> d] : d \in Docs}

\* the key of an endpoint file: hashUrl(swaggerUrl)_path_method
EndpointKey(url, path, method) == <<url, path, ToLowerCase(method)>>

\* loadEndpointFromDisk(cacheKey): the file's data while it is younger than
\* the TTL; an older file is removed
LoadEndpointFromDisk(disk, key, t) ==
    IF key \notin DOMAIN disk
    THEN [disk |-> disk, found |-> FALSE, data |-> None]
    ELSE IF t - disk[key].timestamp < EndpointMemoTTL
    THEN [disk |-> disk, found |-> TRUE, data |-> disk[key].data]
    ELSE [disk |-> Drop(disk, key), found |-> FALSE, data |-> None]

\* the endpoint paths that hold the file-name separator "/"
SeparatedPaths == {"/a"}

\* the file of an endpoint is path.join(cacheDir, endpoint_<key>.json) with
\* the endpoint path verbatim in the key: a "/" in it puts the file in a
\* directory below cacheDir, and only cacheDir itself is ever created
InCacheDir(key) == key[2] \notin SeparatedPaths

\* saveEndpointToDisk(cacheKey, data): writeFile fails when the directory of
\* the file is missing or the storage refuses the write (`written' false);
\* a failed write is only logged
SaveEndpointToDisk(disk, key, data, t, written) ==
    IF written /\ InCacheDir(key)
    THEN Put(disk, key, [data |-> data, timestamp |-> t])
    ELSE disk

\* loadEndpointDetails(swaggerUrl, endpointPath, method, customHeaders) as
\* one step.  `fetched' is what loadFullSwaggerDocument does when it is
\* reached; the operations of the document it returns are tagged by `tag'
\* (the headers sent and the number of the fetch).
LoadEndpointDetails(disk, url, path, method, tag, fetched, written, t) ==
    LET key == EndpointKey(url, path, method)
        m == LoadEndpointFromDisk(disk, key, t)
    IN  IF m.found
        THEN [disk |-> m.disk, ok |-> TRUE, details |-> m.data, error |-> None,
              fetch |-> FALSE]
        ELSE IF ~fetched.ok
        THEN [disk |-> m.disk, ok |-> FALSE, details |-> None,
              error |-> "UpstreamFetchFailed", fetch |-> TRUE]
        ELSE IF ~fetched.hasPaths
        THEN [disk |-> m.disk, ok |-> FALSE, details |-> None,
              error |-> "TypeError", fetch |-> TRUE]
        ELSE IF <<path, ToLowerCase(method)>> \notin fetched.paths
        THEN [disk |-> m.disk, ok |-> FALSE, details |-> None,
              error |-> "NotFound", fetch |-> TRUE]
        ELSE LET endpoint == [op |-> <<path, ToLowerCase(method)>>] @@ tag
             IN  [disk |-> SaveEndpointToDisk(m.disk, key, endpoint, t, written),
                  ok |-> TRUE, details |-> endpoint, error |-> None,
                  fetch |-> TRUE]

\* generateIndexKey(swaggerUrl, sessionId): the url's hash and the session id
GenerateIndexKey(url, sid) == <<url, sid>>

\* isIndexExpired(index)
IsIndexExpired(index, t) ==
    index.timestamp = 0 \/ t - index.timestamp > LoaderIndexTTL

\* whether the registry holds the session, and whether it is neither
\* deactivated nor past its TTL, when a call arrives
SessionKnown(ss, id) == HasSession(ss, id)

SessionLive(ss, id, t) == HasSession(ss, id) /\ ~SessionExpired(Lookup(ss, id), t)

\* The facade reads the index cache's counters only for the hit_rate of
\* getSessionStats, which is not modelled: the facade's cache carries no
\* counts (SpecCache counts them).
Unmetered(c) == [c EXCEPT !.stats = NewCache(c.max, c.ttl).stats]

\* getOrCreateIndex up to its first suspension: the cached index ("hit"),
\* the loader's unexpired copy cached again ("reuse"), a fetch to start
\* ("fetch"), or no session ("invalid")
GetOrCreateIndexStart(ic, ss, ld, url, sid, t, nearLimit) ==
    LET key == GenerateIndexKey(url, sid)
        g == CacheGet(ic, key, t)
        s == GetSession(ss, sid, t)
    IN  IF g.hit
        THEN [outcome |-> "hit", index |-> g.value,
              indexCache |-> g.cache, sessions |-> ss]
        ELSE IF ~s.found
        THEN [outcome |-> "invalid", index |-> None,
              indexCache |-> g.cache, sessions |-> ss]
        ELSE IF key \in DOMAIN ld.index /\ ~IsIndexExpired(ld.index[key], t)
        THEN [outcome |-> "reuse", index |-> ld.index[key],
              indexCache |-> CacheSet(g.cache, key, ld.index[key], 0, t, nearLimit).cache,
              sessions |-> s.sessions]
        ELSE [outcome |-> "fetch", index |-> None,
              indexCache |-> g.cache, sessions |-> s.sessions]

\* what a search or suggestions call returns when it is answered from `index'
Answered(op, c, call, index, fetched, t) ==
    [op |-> op, caller |-> c, url |-> call.url, sid |-> call.sid,
     status |-> "ok", error |-> None, index |-> index, fetched |-> fetched,
     age |-> t - index.timestamp, known |-> call.known, live |-> call.live]

\* what a call throws
Failed(op, c, call, error, prior) ==
    [op |-> op, caller |-> c, url |-> call.url, sid |-> call.sid,
     status |-> "error", error |-> error, prior |-> prior,
     known |-> call.known, live |-> call.live]

Pending(op, c, call) ==
    [op |-> op, caller |-> c, url |-> call.url, sid |-> call.sid,
     status |-> "pending", known |-> call.known, live |-> call.live]

NewCall(op, url, sid, ss, t) ==
    [pc |-> "idle", op |-> op, url |-> url, sid |-> sid,
     known |-> SessionKnown(ss, sid), live |-> SessionLive(ss, sid, t)]

\* getOrCreateIndex from the facade call `call' of caller c, whose session
\* checks have left the registry as ss
IndexLookup(c, call, ss, nearLimit) ==
    LET r == GetOrCreateIndexStart(indexCache, ss, loader, call.url, call.sid,
                                   now, nearLimit)
    IN  /\ indexCache' = Unmetered(r.indexCache)
        /\ sessions' = r.sessions
        /\ CASE r.outcome \in {"hit", "reuse"} ->
                  /\ last' = Answered(call.op, c, call, r.index, FALSE, now)
                  /\ UNCHANGED <<calls, fetches>>
             [] r.outcome = "invalid" ->
                  /\ last' = Failed(call.op, c, call, "InvalidSession", FALSE)
                  /\ UNCHANGED <<calls, fetches>>
             [] r.outcome = "fetch" ->
                  /\ fetches < MaxFetches
                  /\ fetches' = fetches + 1
                  /\ calls' = [calls EXCEPT ![c] =
                                  [call EXCEPT !.pc = "fetch"] @@ [fetch |-> fetches + 1]]
                  /\ last' = Pending(call.op, c, call)

\* searchEndpoints(params), up to its first suspension
SearchEndpoints(c, url, sid, nearLimit) ==
    /\ calls[c].pc = "idle"
    /\ LET call == NewCall("search", url, sid, sessions, now)
           s == GetSession(sessions, sid, now)
       IN  IF ~s.found
           THEN /\ last' = Failed("search", c, call, "InvalidSession", FALSE)
                /\ UNCHANGED <<sessions, svcVars>>
           ELSE /\ IndexLookup(c, call, UpdateAccessTime(s.sessions, sid, now).sessions,
                               nearLimit)
                /\ UNCHANGED loader
    /\ UNCHANGED <<now, cache>>

\* getSearchSuggestions(swaggerUrl, sessionId, partial, limit), up to its
\* first suspension
GetSearchSuggestions(c, url, sid, nearLimit) ==
    /\ calls[c].pc = "idle"
    /\ IndexLookup(c, NewCall("suggest", url, sid, sessions, now), sessions, nearLimit)
    /\ UNCHANGED <<now, cache, loader>>

\* what a document fetch of createIncrementalIndex comes to: axios.get
\* fails ("error"); the document has no version marker ("invalid"); it has
\* one and no info member, which buildLightweightIndex reads ("malformed");
\* or the index is built ("ok")
FetchOutcomes == {"ok", "error", "invalid", "malformed"}

\* the error createIncrementalIndex throws for an outcome
FetchError(outcome) ==
    CASE outcome = "error" -> "UpstreamFetchFailed"
      [] outcome = "invalid" -> "InvalidDocument"
      [] outcome = "malformed" -> "TypeError"
      [] OTHER -> None

\* a loader that stores what it fetched before looking at the markers
StoreFetchedUnchecked(ld, key, outcome, fetch, t) ==
    IF outcome = "error"
    THEN ld
    ELSE [ld EXCEPT !.meta = Put(ld.meta, key, fetch),
                    !.docMeta = Put(ld.docMeta, key,
                                    [downloadedAt |-> t, expiresAt |-> t + DocMetaTTL])]

\* the loader's caches after the fetch of createIncrementalIndex: loadMetadata
\* throws before anything is stored; the metadata and the document metadata
\* are stored before buildLightweightIndex runs, the index after it
StoreFetched(ld, key, outcome, fetch, t) ==
    CASE outcome \in {"error", "invalid"} -> ld
      [] outcome = "malformed" ->
            [ld EXCEPT !.meta = Put(ld.meta, key, fetch),
                       !.docMeta = Put(ld.docMeta, key,
                                       [downloadedAt |-> t, expiresAt |-> t + DocMetaTTL])]
      [] outcome = "ok" ->
            [ld EXCEPT !.index = Put(ld.index, key, [timestamp |-> t, fetch |-> fetch]),
                       !.meta = Put(ld.meta, key, fetch),
                       !.docMeta = Put(ld.docMeta, key,
                                       [downloadedAt |-> t, expiresAt |-> t + DocMetaTTL])]

\* createIncrementalIndex resumes after loadMetadata: it throws, or the
\* index is built, stamped and stored in the loader, and persistIndex starts
FetchDone(c, outcome) ==
    /\ calls[c].pc = "fetch"
    /\ LET call == calls[c]
           key == GenerateIndexKey(call.url, call.sid)
           index == [timestamp |-> now, fetch |-> call.fetch]
       IN  /\ loader' = StoreFetched(loader, key, outcome, call.fetch, now)
           /\ IF outcome # "ok"
              THEN /\ last' = Failed(call.op, c, call, FetchError(outcome),
                                     key \in DOMAIN loader.index)
                   /\ calls' = [calls EXCEPT ![c] = Idle]
              ELSE /\ calls' = [calls EXCEPT ![c] =
                                   [call EXCEPT !.pc = "persist"] @@ [index |-> index]]
                   /\ last' = [Pending(call.op, c, call) EXCEPT !.status = "built"]
    /\ UNCHANGED <<now, cache, sessions, indexCache, fetches>>

\* persistIndex returns (a failed write is only logged): getOrCreateIndex
\* caches the index and the call is answered from it
PersistDone(c, nearLimit) ==
    /\ calls[c].pc = "persist"
    /\ LET call == calls[c]
           key == GenerateIndexKey(call.url, call.sid)
       IN  /\ indexCache' =
                 Unmetered(CacheSet(indexCache, key, call.index, 0, now, nearLimit).cache)
           /\ last' = Answered(call.op, c, call, call.index, TRUE, now)
           /\ calls' = [calls EXCEPT ![c] = Idle]
    /\ UNCHANGED <<now, cache, sessions, loader, fetches>>

\* the (path, method) pairs getEndpointDetails looks up, in its order: for
\* each path, each of params.methods || ['GET']
RECURSIVE PairsOf(_, _)
PairsOf(paths, methods) ==
    IF paths = <<>>
    THEN <<>>
    ELSE [i \in 1..Len(methods) |-> [path |-> Head(paths), method |-> methods[i]]]
         \o PairsOf(Tail(paths), methods)

\* params.methods: not given, or a list of method names
NoMethods == [given |-> FALSE, list |-> <<>>]

Methods(list) == [given |-> TRUE, list |-> list]

\* the pairs looked up if a request without methods had no default method
RequestedPairsNoDefault(paths, methods) == PairsOf(paths, methods.list)

RequestedPairs(paths, methods) ==
    PairsOf(paths, IF methods.given THEN methods.list ELSE <<"GET">>)

\* getEndpointDetails(params), up to its first loadEndpointDetails: the
\* session is checked and touched, and its customHeaders are kept for the
\* lookups
GetEndpointDetails(c, url, sid, paths, methods) ==
    /\ calls[c].pc = "idle"
    /\ LET call == NewCall("details", url, sid, sessions, now)
           s == GetSession(sessions, sid, now)
       IN  IF ~s.found
           THEN /\ last' = Failed("details", c, call, "InvalidSession", FALSE)
                /\ UNCHANGED <<sessions, calls>>
           ELSE /\ sessions' = UpdateAccessTime(s.sessions, sid, now).sessions
                /\ calls' = [calls EXCEPT ![c] =
                                [call EXCEPT !.pc = "details"]
                                @@ [headers |-> s.session.settings,
                                    paths |-> paths, methods |-> methods,
                                    todo |-> RequestedPairs(paths, methods),
                                    endpoints |-> <<>>]]
                /\ last' = Pending("details", c, call)
    /\ UNCHANGED <<now, cache, indexCache, loader, fetches>>

\* one turn of the loop of getEndpointDetails: loadEndpointDetails for the
\* next pair; its result is appended, its failure logged and the pair left
\* out
DetailsLoad(c, fetched, written) ==
    /\ calls[c].pc = "details"
    /\ calls[c].todo # <<>>
    /\ LET call == calls[c]
           item == Head(call.todo)
           tag == [headers |-> call.headers, fetch |-> fetches + 1]
           r == LoadEndpointDetails(loader.disk, call.url, item.path, item.method,
                                    tag, fetched, written, now)
       IN  /\ r.fetch => fetches < MaxFetches
           /\ fetches' = IF r.fetch THEN fetches + 1 ELSE fetches
           /\ loader' = [loader EXCEPT !.disk = r.disk]
           /\ calls' = [calls EXCEPT ![c] =
                           [call EXCEPT
                              !.todo = Tail(call.todo),
                              !.endpoints =
                                  IF r.ok
                                  THEN Append(call.endpoints,
                                              [path |-> item.path,
                                               method |-> ToUpperCase(item.method),
                                               details |-> r.details])
                                  ELSE call.endpoints]]
           /\ last' = [op |-> "loadEndpointDetails", caller |-> c, url |-> call.url,
                       sid |-> call.sid, path |-> item.path, method |-> item.method,
                       ok |-> r.ok, error |-> r.error, details |-> r.details,
                       fetch |-> r.fetch,
                       fetched |-> IF r.fetch THEN fetched ELSE NoFetch,
                       written |-> r.ok /\ r.fetch /\ written]
    /\ UNCHANGED <<now, cache, sessions, indexCache>>

\* getEndpointDetails returns the endpoints it has collected
DetailsDone(c) ==
    /\ calls[c].pc = "details"
    /\ calls[c].todo = <<>>
    /\ last' = [op |-> "details", caller |-> c, url |-> calls[c].url,
                sid |-> calls[c].sid, status |-> "ok", error |-> None,
                paths |-> calls[c].paths, methods |-> calls[c].methods,
                endpoints |-> calls[c].endpoints,
                known |-> calls[c].known, live |-> calls[c].live]
    /\ calls' = [calls EXCEPT ![c] = Idle]
    /\ UNCHANGED <<now, cache, sessions, indexCache, loader, fetches>>

\* configureSession(params)
ConfigureSession(sid, config) ==
    /\ LET r == CreateOrUpdateSession(sessions, sid, config, now)
       IN  /\ sessions' = r.sessions
           /\ last' = [op |-> "configure", sid |-> sid, existed |-> r.existed,
                       result |-> IF r.session.createdAt = r.session.lastAccessed
                                  THEN "created" ELSE "updated",
                       cache_ttl |-> r.session.cacheTTL]
    /\ UNCHANGED <<now, cache, svcVars>>

\* getSessionStats(sessionId): reading the session touches it
GetSessionStats(sid) ==
    /\ LET s == GetSession(sessions, sid, now)
       IN  /\ sessions' = s.sessions
           /\ last' = [op |-> "stats", sid |-> sid, found |-> s.found,
                       index_cache_size |-> CacheSize(indexCache),
                       total_sessions |-> Len(sessions)]
    /\ UNCHANGED <<now, cache, svcVars>>

\* clearCache(swaggerUrl?, sessionId?): None stands for an argument not
\* given.  With both given one key is deleted; otherwise the index cache and
\* the loader's indexCache and metadataCache are cleared, and the call waits
\* for the loader's directory scan.
ClearCache(c, url, sid) ==
    /\ calls[c].pc = "idle"
    /\ IF url # None /\ sid # None
       THEN LET d == CacheDelete(indexCache, GenerateIndexKey(url, sid))
            IN  /\ indexCache' = Unmetered(d.cache)
                /\ last' = [op |-> "clearCache", caller |-> c, status |-> "ok",
                            url |-> url, sid |-> sid,
                            cleared_items |-> IF d.deleted THEN 1 ELSE 0,
                            cache_type |-> "specific"]
                /\ UNCHANGED <<loader, calls>>
       ELSE /\ indexCache' = Unmetered(CacheClear(indexCache).cache)
            /\ loader' = [loader EXCEPT !.index = <<>>, !.meta = <<>>]
            /\ calls' = [calls EXCEPT ![c] =
                            [pc |-> "clearDisk", url |-> url, sid |-> sid,
                             cleared_items |-> CacheSize(indexCache),
                             cache_type |-> IF url # None THEN "specific" ELSE "all"]]
            /\ last' = [op |-> "clearCache", caller |-> c, status |-> "pending",
                        url |-> url, sid |-> sid]
    /\ UNCHANGED <<now, cache, sessions, fetches>>

\* the directory scan of IndexedSwaggerLoader.clearCache returns: the files
\* of cacheDir are removed, or the scan failed and the failure was logged
ClearCacheDone(c, scanned) ==
    /\ calls[c].pc = "clearDisk"
    /\ loader' = IF scanned THEN [loader EXCEPT !.disk = <<>>] ELSE loader
    /\ last' = [op |-> "clearCache", caller |-> c, status |-> "ok",
                url |-> calls[c].url, sid |-> calls[c].sid,
                cleared_items |-> calls[c].cleared_items,
                cache_type |-> calls[c].cache_type]
    /\ calls' = [calls EXCEPT ![c] = Idle]
    /\ UNCHANGED <<now, cache, sessions, indexCache, fetches>>

\* the cleanup timer of the index cache
IndexCleanupTimer ==
    /\ LET r == PerformCleanup(indexCache, now)
       IN  /\ indexCache' = Unmetered(r.cache)
           /\ last' = [op |-> "cleanup", cleaned |-> r.cleaned]
    /\ UNCHANGED <<now, cache, sessions, loader, calls, fetches>>

ServiceTick ==
    /\ now < MaxServiceTime
    /\ now' = now + 1
    /\ UNCHANGED <<cache, sessions, svcVars, last>>

\* one caller: the facade calls follow one another
InitService ==
    /\ now = 1
    /\ cache = NewCache(CacheMax, CacheTTL)
    /\ sessions = <<>>
    /\ indexCache = NewCache(IndexCacheMax, IndexCacheTTL)
    /\ loader = NewLoader
    /\ calls = [c \in {"c1"} |-> Idle]
    /\ fetches = 0
    /\ last = NoCall

\* the calls made on the facade and the registry, and their continuations
FacadeStep ==
    \/ \E sid \in CallSessionIds, config \in PlainConfigs : ConfigureSession(sid, config)
    \/ \E c \in DOMAIN calls, url \in Urls, sid \in CallSessionIds, nl \in BOOLEAN :
          SearchEndpoints(c, url, sid, nl)
    \/ \E c \in DOMAIN calls, url \in Urls, sid \in CallSessionIds, nl \in BOOLEAN :
          GetSearchSuggestions(c, url, sid, nl)
    \/ \E c \in DOMAIN calls, outcome \in {"ok", "error", "invalid"} : FetchDone(c, outcome)
    \/ \E c \in DOMAIN calls, nl \in BOOLEAN : PersistDone(c, nl)
    \/ \E sid \in CallSessionIds : GetSessionStats(sid)
    \/ \E c \in DOMAIN calls, url \in Urls \cup {None}, sid \in CallSessionIds \cup {None} :
          ClearCache(c, url, sid)
    \/ \E c \in DOMAIN calls, scanned \in BOOLEAN : ClearCacheDone(c, scanned)
    \/ IndexCleanupTimer
    \/ \E sid \in CallSessionIds : DoDeactivateSession(sid)
    \/ \E sid \in CallSessionIds : DoRemoveSession(sid)
    \/ DoCleanupExpiredSessions

NextService == ServiceTick \/ FacadeStep

SpecService == InitService /\ [][NextService]_vars

\* two callers: a search or suggestions call may start while another is
\* suspended in its build
InitConcurrent ==
    /\ now = 1
    /\ cache = NewCache(CacheMax, CacheTTL)
    /\ sessions = <<>>
    /\ indexCache = NewCache(IndexCacheMax, IndexCacheTTL)
    /\ loader = NewLoader
    /\ calls = [c \in Callers |-> Idle]
    /\ fetches = 0
    /\ last = NoCall

ConcurrentTick ==
    /\ now < MaxConcurrentTime
    /\ now' = now + 1
    /\ UNCHANGED <<cache, sessions, svcVars, last>>

NextConcurrent ==
    \/ ConcurrentTick
    \/ \E sid \in CallSessionIds, config \in PlainConfigs : ConfigureSession(sid, config)
    \/ \E c \in DOMAIN calls, url \in Urls, sid \in CallSessionIds, nl \in BOOLEAN :
          SearchEndpoints(c, url, sid, nl)
    \/ \E c \in DOMAIN calls, url \in Urls, sid \in CallSessionIds, nl \in BOOLEAN :
          GetSearchSuggestions(c, url, sid, nl)
    \/ \E c \in DOMAIN calls, outcome \in {"ok", "error", "invalid"} : FetchDone(c, outcome)
    \/ \E c \in DOMAIN calls, nl \in BOOLEAN : PersistDone(c, nl)
    \/ \E sid \in CallSessionIds : DoRemoveSession(sid)
    \/ DoCleanupExpiredSessions

SpecConcurrent == InitConcurrent /\ [][NextConcurrent]_vars

\* The endpoint details: two sessions, each configured with headers of its
\* own, ask for the details of the same operations.
DetailSessionIds == {"s1", "s2"}

OwnConfig(sid) ==
    [settings |-> IF sid = "s1" THEN "k1" ELSE "k2", cacheTTL |-> 0]

PathLists == {<<"b">>, <<"/a", "b">>}

MethodLists == {NoMethods, Methods(<<"get">>)}

DetailsTick ==
    /\ now < MaxDetailsTime
    /\ now' = now + 1
    /\ UNCHANGED <<cache, sessions, svcVars, last>>

NextDetails ==
    \/ DetailsTick
    \/ \E sid \in DetailSessionIds : ConfigureSession(sid, OwnConfig(sid))
    \/ \E c \in DOMAIN calls, url \in Urls, sid \in DetailSessionIds,
          paths \in PathLists, methods \in MethodLists :
          GetEndpointDetails(c, url, sid, paths, methods)
    \/ \E c \in DOMAIN calls, fetched \in FetchResults, written \in BOOLEAN :
          DetailsLoad(c, fetched, written)
    \/ \E c \in DOMAIN calls : DetailsDone(c)
    \/ \E c \in DOMAIN calls : ClearCache(c, None, None)
    \/ \E c \in DOMAIN calls, scanned \in BOOLEAN : ClearCacheDone(c, scanned)

SpecDetails == InitService /\ [][NextDetails]_vars

\* Clearing the cache of a facade that serves two source URLs
ClearedUrls == {"u1", "u2"}

NextClear ==
    \/ ServiceTick
    \/ \E sid \in CallSessionIds, config \in PlainConfigs : ConfigureSession(sid, config)
    \/ \E c \in DOMAIN calls, url \in ClearedUrls, sid \in CallSessionIds, nl \in BOOLEAN :
          SearchEndpoints(c, url, sid, nl)
    \/ \E c \in DOMAIN calls, outcome \in {"ok", "error", "invalid"} : FetchDone(c, outcome)
    \/ \E c \in DOMAIN calls, nl \in BOOLEAN : PersistDone(c, nl)
    \/ \E c \in DOMAIN calls, url \in ClearedUrls \cup {None},
          sid \in CallSessionIds \cup {None} : ClearCache(c, url, sid)
    \/ \E c \in DOMAIN calls, scanned \in BOOLEAN : ClearCacheDone(c, scanned)

SpecClear == InitService /\ [][NextClear]_vars

-----------------------------------------------------------------------------
(* Claims about the facade *)

Queries == {"search", "suggest"}

\* the status of a call that has returned or thrown
Returned == {"ok", "error"}

\* the key a suspended call is building an index for
BuildKey(call) == GenerateIndexKey(call.url, call.sid)

\* C1: when two search or suggestions calls for the same (source, session)
\* key overlap, at most one document fetch for that key is in flight: no two
\* callers are suspended in a fetch for one key.
C1_OneFetchInFlight ==
    \A c, d \in DOMAIN calls :
        (c # d /\ calls[c].pc = "fetch" /\ calls[d].pc = "fetch")
            => BuildKey(calls[c]) # BuildKey(calls[d])

\* C2: a fetch failure reaches the caller of a search or suggestions call
\* (made on a live session) only when no previously built index exists for
\* the key; with a prior index the query is answered from it.
C2_FetchErrorOnlyWithoutPriorIndex ==
    (last.op \in Queries /\ last.live /\ last.status = "error"
        /\ last.error = "UpstreamFetchFailed") => ~last.prior

\* C3: a search or suggestions call that is answered without a new fetch
\* is answered from an index built no more than the index TTL earlier: once
\* the TTL has elapsed the next query rebuilds.
C3_NoAnswerFromExpiredIndex ==
    (last.op \in Queries /\ last.status = "ok" /\ ~last.fetched)
        => last.age <= IndexCacheTTL

\* C8: a search, getEndpointDetails or getSearchSuggestions call made with a
\* session id that is not in the registry ends in an invalid-session error,
\* whatever the index cache holds.
C8_UnknownSessionIsInvalid ==
    (last.op \in Queries \cup {"details"} /\ ~last.known /\ last.status \in Returned)
        => (last.status = "error" /\ last.error = "InvalidSession")

\* C9: a search or getEndpointDetails call on a session that is in the
\* registry but expired or deactivated ends in an invalid-session error.
C9_ExpiredSessionIsInvalid ==
    (last.op \in {"search", "details"} /\ last.known /\ ~last.live
        /\ last.status \in Returned)
        => (last.status = "error" /\ last.error = "InvalidSession")

\* C14: the operation details a getEndpointDetails call returns were
\* fetched with the headers of the session the call was made under, never
\* with those of another session.
C14_DetailsOfOwnSession ==
    (last.op = "details" /\ last.status = "ok")
        => \A i \in 1..Len(last.endpoints) :
              last.endpoints[i].details.headers = OwnConfig(last.sid).settings

C16_SearchAfterClearFetches ==
    [][(/\ last.op = "clearCache" /\ last.status = "ok"
        /\ last.url # None /\ last.sid # None /\ last.cleared_items = 1
        /\ last'.op = "search"
        /\ last'.url = last.url /\ last'.sid = last.sid)
       => last'.status # "ok"]_vars

\* the keys of the indexes the facade holds
IndexKeys(c) == {c.order[i] : i \in 1..Len(c.order)}

\* C17: a clearCache call that reports cache_type 'specific' has removed no
\* index of another source URL than the one it was given, and a call that
\* reports 'all' has cleared every entry.
C17_SpecificKeepsOtherUrls ==
    [][(now' = now /\ last'.op = "clearCache" /\ last'.status = "pending")
       => LET type == calls'[last'.caller].cache_type
          IN  /\ type = "specific"
                   => \A k \in IndexKeys(indexCache) :
                         k[1] # last'.url => k \in IndexKeys(indexCache')
              /\ type = "all" => IndexKeys(indexCache') = {}]_vars

\* C18: a search answered from an index built earlier for the session is
\* answered no later than the session's cache_ttl after the index was built;
\* once that time has elapsed the search fetches the document again.
C18_IndexLivesForSessionTtl ==
    [][(/\ last' # last
        /\ last'.op = "search" /\ last'.status = "ok" /\ ~last'.fetched
        /\ HasSession(sessions', last'.sid))
       => last'.age <= SessionTTLOf(Lookup(sessions', last'.sid))]_vars

\* the lookups a getDetails request asks for, in request order: every path
\* with every given method, or with GET when no methods are given
Asked(paths, methods) ==
    LET ms == IF methods.given THEN methods.list ELSE <<"GET">>
        m == Len(ms)
    IN  [k \in 1..(Len(paths) * m) |->
            [path |-> paths[((k - 1) \div m) + 1], method |-> ms[((k - 1) % m) + 1]]]

\* C19: getDetails for a valid session looks up the requested pairs in
\* request order, with GET when no methods are given; a lookup that succeeds
\* adds its pair to the result, a lookup that fails adds nothing and does not
\* end the call, and the call returns the pairs it has collected.
C19_DetailsOmitsOnlyFailures ==
    [][\A c \in DOMAIN calls :
         /\ (calls[c].pc = "idle" /\ calls'[c].pc = "details")
               => /\ calls'[c].todo = Asked(calls'[c].paths, calls'[c].methods)
                  /\ calls'[c].endpoints = <<>>
         /\ (calls[c].pc = "details" /\ calls'[c] # calls[c])
               => IF calls[c].todo # <<>>
                  THEN /\ calls'[c].pc = "details"
                       /\ calls'[c].todo = Tail(calls[c].todo)
                       /\ last'.path = Head(calls[c].todo).path
                       /\ last'.method = Head(calls[c].todo).method
                       /\ IF last'.ok
                          THEN /\ Len(calls'[c].endpoints) = Len(calls[c].endpoints) + 1
                               /\ SubSeq(calls'[c].endpoints, 1, Len(calls[c].endpoints))
                                     = calls[c].endpoints
                               /\ LET e == calls'[c].endpoints[Len(calls'[c].endpoints)]
                                  IN  /\ e.path = last'.path
                                      /\ ToLowerCase(e.method) = ToLowerCase(last'.method)
                                      /\ e.details = last'.details
                          ELSE calls'[c].endpoints = calls[c].endpoints
                  ELSE /\ last'.op = "details" /\ last'.status = "ok"
                       /\ last'.endpoints = calls[c].endpoints]_vars

\* a request for two paths and no methods has returned the one pair whose
\* lookup succeeded, as a GET
C19_Witness ==
    /\ last.op = "details" /\ last.status = "ok"
    /\ ~last.methods.given
    /\ last.paths = <<"/a", "b">>
    /\ Len(last.endpoints) = 1
    /\ last.endpoints[1].path = "b" /\ last.endpoints[1].method = "GET"

\* C20: a lookup that fetched the document and did not find its path and
\* method in it fails with the not-found error, and no memo of the pair is
\* on disk afterwards.
C20_AbsentPairIsNotFound ==
    [][(/\ last'.op = "loadEndpointDetails"
        /\ last'.fetch /\ last'.fetched.ok
        /\ <<last'.path, ToLowerCase(last'.method)>> \notin last'.fetched.paths)
       => /\ ~last'.ok
          /\ last'.error = "NotFound"
          /\ EndpointKey(last'.url, last'.path, last'.method)
                \notin DOMAIN loader'.disk]_vars

\* C21: a lookup that finds a memo of its triple younger than 30 minutes
\* returns the memoized operation without a fetch; one that finds an older
\* memo fetches, and the old memo is gone afterwards; and a lookup that
\* fetched and succeeded, on a storage that takes writes, leaves the memo of
\* its triple behind for the next lookup.
C21_MemoServesSecondLookup ==
    [][(/\ now' = now
        /\ last'.op = "loadEndpointDetails"
        /\ \E c \in DOMAIN calls : calls'[c] # calls[c])
       => LET key == EndpointKey(last'.url, last'.path, last'.method)
              held == key \in DOMAIN loader.disk
          IN  /\ (held /\ now - loader.disk[key].timestamp < EndpointMemoTTL)
                    => /\ last'.ok /\ ~last'.fetch
                       /\ last'.details = loader.disk[key].data
              /\ (held /\ now - loader.disk[key].timestamp >= EndpointMemoTTL)
                    => /\ last'.fetch
                       /\ key \in DOMAIN loader'.disk
                            => loader'.disk[key].timestamp = now
              /\ (last'.ok /\ last'.fetch /\ last'.written)
                    => /\ key \in DOMAIN loader'.disk
                       /\ loader'.disk[key] = [data |-> last'.details, timestamp |-> now]]_vars

\* what a map holds for a key: its value, or nothing
At(f, k) == IF k \in DOMAIN f THEN <<f[k]>> ELSE <<>>

\* C22: a build whose fetched document declares no version marker fails
\* with the invalid-document error and leaves what the loader's index cache,
\* metadata cache and document-metadata cache, and the facade's index cache,
\* hold for the key as it was; no persist of an index is started.
C22_InvalidDocumentStoresNothing ==
    [][(/\ calls' # calls
        /\ last'.op \in Queries /\ last'.status = "error"
        /\ last'.error = "InvalidDocument")
       => LET key == GenerateIndexKey(last'.url, last'.sid)
          IN  /\ At(loader'.index, key) = At(loader.index, key)
              /\ At(loader'.meta, key) = At(loader.meta, key)
              /\ At(loader'.docMeta, key) = At(loader.docMeta, key)
              /\ At(indexCache'.ent, key) = At(indexCache.ent, key)
              /\ calls'[last'.caller].pc = "idle"]_vars

\* a rebuild of a key whose earlier index is still in the loader has failed
\* on an invalid document, and the earlier index and metadata are in place
C22_Witness ==
    /\ last.op \in Queries /\ last.status = "error"
    /\ last.error = "InvalidDocument" /\ last.prior
    /\ LET key == GenerateIndexKey(last.url, last.sid)
       IN  /\ key \in DOMAIN loader.index
           /\ key \in DOMAIN loader.docMeta
           /\ loader.index[key].timestamp < now

-----------------------------------------------------------------------------
(* IndexedSwaggerLoader called on its own: createIncrementalIndex,         *)
(* needsRefresh, loadWithAutoRefresh and clearCache, one call at a time.   *)

\* the last instant of the loader's clock
MaxRefreshTime == 3

\* the lifetime needsRefresh gives the document metadata on a 304
RevalidatedTTL == 1

\* the session ids the loader is called with
RefreshSessionIds == {"s1", "s2"}

\* what the source answers to the conditional HEAD request: a status, or
\* nothing at all (0)
HeadAnswers == {0, 200, 304}

\* axios settles a request with its response when validateStatus accepts
\* the status, which by default is 200..299, and rejects otherwise
AxiosResolves(status) == status >= 200 /\ status < 300

\* needsRefresh(swaggerUrl, sessionId), the source answering `answer' if it
\* is asked
NeedsRefresh(ld, key, answer, t) ==
    IF key \notin DOMAIN ld.index \/ key \notin DOMAIN ld.docMeta
    THEN [refresh |-> TRUE, contacted |-> FALSE, loader |-> ld]
    ELSE IF t > ld.docMeta[key].expiresAt
    THEN [refresh |-> TRUE, contacted |-> FALSE, loader |-> ld]
    ELSE IF ~AxiosResolves(answer)
    THEN [refresh |-> TRUE, contacted |-> TRUE, loader |-> ld]
    ELSE IF answer = 304
    THEN [refresh |-> FALSE, contacted |-> TRUE,
          loader |-> [ld EXCEPT !.docMeta[key].expiresAt = t + RevalidatedTTL]]
    ELSE [refresh |-> answer # 304, contacted |-> TRUE, loader |-> ld]

\* createIncrementalIndex(swaggerUrl, sessionId, customHeaders) as one step:
\* the loader's unexpired index, or a fetch numbered `fetch' that comes to
\* `outcome'
CreateIncrementalIndex(ld, key, outcome, fetch, t) ==
    IF key \in DOMAIN ld.index /\ ~IsIndexExpired(ld.index[key], t)
    THEN [loader |-> ld, ok |-> TRUE, error |-> None, fetched |-> FALSE,
          index |-> <<ld.index[key]>>]
    ELSE [loader |-> StoreFetched(ld, key, outcome, fetch, t),
          ok |-> outcome = "ok", error |-> FetchError(outcome), fetched |-> TRUE,
          index |-> IF outcome = "ok"
                    THEN <<[timestamp |-> t, fetch |-> fetch]>>
                    ELSE <<>>]

\* loadWithAutoRefresh(swaggerUrl, sessionId, customHeaders) as one step
LoadWithAutoRefresh(ld, key, answer, outcome, fetch, t) ==
    LET n == NeedsRefresh(ld, key, answer, t)
    IN  IF ~n.refresh /\ key \in DOMAIN n.loader.index
        THEN [loader |-> n.loader, ok |-> TRUE, error |-> None, fetched |-> FALSE,
              index |-> <<n.loader.index[key]>>, needsUpdate |-> n.refresh]
        ELSE CreateIncrementalIndex(n.loader, key, outcome, fetch, t)
             @@ [needsUpdate |-> n.refresh]

RefreshTick ==
    /\ now < MaxRefreshTime
    /\ now' = now + 1
    /\ UNCHANGED <<cache, sessions, svcVars, last>>

DoCreateIncrementalIndex(url, sid, outcome) ==
    LET key == GenerateIndexKey(url, sid)
        r == CreateIncrementalIndex(loader, key, outcome, fetches + 1, now)
    IN  /\ r.fetched => fetches < MaxFetches
        /\ loader' = r.loader
        /\ fetches' = IF r.fetched THEN fetches + 1 ELSE fetches
        /\ last' = [op |-> "createIncrementalIndex", url |-> url, sid |-> sid,
                    ok |-> r.ok, error |-> r.error, fetched |-> r.fetched,
                    index |-> r.index]
        /\ UNCHANGED <<now, cache, sessions, indexCache, calls>>

DoNeedsRefresh(url, sid, answer) ==
    LET key == GenerateIndexKey(url, sid)
        r == NeedsRefresh(loader, key, answer, now)
    IN  /\ loader' = r.loader
        /\ last' = [op |-> "needsRefresh", url |-> url, sid |-> sid,
                    result |-> r.refresh, contacted |-> r.contacted,
                    answer |-> IF r.contacted THEN answer ELSE 0]
        /\ UNCHANGED <<now, cache, sessions, indexCache, calls, fetches>>

DoLoadWithAutoRefresh(url, sid, answer, outcome) ==
    LET key == GenerateIndexKey(url, sid)
        r == LoadWithAutoRefresh(loader, key, answer, outcome, fetches + 1, now)
    IN  /\ r.fetched => fetches < MaxFetches
        /\ loader' = r.loader
        /\ fetches' = IF r.fetched THEN fetches + 1 ELSE fetches
        /\ last' = [op |-> "loadWithAutoRefresh", url |-> url, sid |-> sid,
                    ok |-> r.ok, error |-> r.error, fetched |-> r.fetched,
                    index |-> r.index, needsUpdate |-> r.needsUpdate,
                    held |-> key \in DOMAIN loader.index]
        /\ UNCHANGED <<now, cache, sessions, indexCache, calls>>

\* IndexedSwaggerLoader.clearCache(): the index and metadata maps are
\* cleared, the document metadata map is not; the files are removed
DoLoaderClearCache ==
    /\ loader' = [loader EXCEPT !.index = <<>>, !.meta = <<>>, !.disk = <<>>]
    /\ last' = [op |-> "loaderClearCache"]
    /\ UNCHANGED <<now, cache, sessions, indexCache, calls, fetches>>

NextRefresh ==
    \/ RefreshTick
    \/ \E url \in Urls, sid \in RefreshSessionIds, outcome \in FetchOutcomes :
          DoCreateIncrementalIndex(url, sid, outcome)
    \/ \E url \in Urls, sid \in RefreshSessionIds, answer \in HeadAnswers :
          DoNeedsRefresh(url, sid, answer)
    \/ \E url \in Urls, sid \in RefreshSessionIds, answer \in HeadAnswers,
          outcome \in FetchOutcomes :
          DoLoadWithAutoRefresh(url, sid, answer, outcome)
    \/ DoLoaderClearCache

SpecRefresh == InitService /\ [][NextRefresh]_vars

\* C24: needsRefresh answers true without asking the source when the loader
\* holds no index or no document metadata for the key or the metadata has
\* expired; otherwise it answers false exactly when the source answers
\* not-modified (304), and then the metadata expires 30 minutes from now.
C24_NeedsRefreshFollowsSource ==
    [][(last'.op = "needsRefresh" /\ now' = now /\ last' # last)
       => LET key == GenerateIndexKey(last'.url, last'.sid)
          IN  IF \/ key \notin DOMAIN loader.index
                 \/ key \notin DOMAIN loader.docMeta
                 \/ now > loader.docMeta[key].expiresAt
              THEN last'.result /\ ~last'.contacted
              ELSE /\ ~last'.result <=> last'.answer = 304
                   /\ ~last'.result
                         => loader'.docMeta[key].expiresAt = now + RevalidatedTTL]_vars

\* C25: loadWithAutoRefresh fetches nothing when needsRefresh is false and
\* the loader holds an index of the key; in every other case it fetches the
\* document, and when the fetch yields an index that index is the one the
\* loader holds for the key afterwards.
C25_AutoRefreshRebuilds ==
    [][(last'.op = "loadWithAutoRefresh" /\ now' = now /\ last' # last)
       => LET key == GenerateIndexKey(last'.url, last'.sid)
          IN  IF ~last'.needsUpdate /\ last'.held
              THEN ~last'.fetched /\ fetches' = fetches
              ELSE /\ last'.fetched /\ fetches' = fetches + 1
                   /\ last'.ok
                         => loader'.index[key] = [timestamp |-> now, fetch |-> fetches']]_vars

-----------------------------------------------------------------------------
(* The index of a document and the searches on it.  A string is the         *)
(* sequence of its characters; a relevance is counted in hundredths.        *)

LowerLetters ==
    <<"a", "b", "c", "d", "e", "f", "g", "h", "i", "j", "k", "l", "m",
      "n", "o", "p", "q", "r", "s", "t", "u", "v", "w", "x", "y", "z">>

UpperLetters ==
    <<"A", "B", "C", "D", "E", "F", "G", "H", "I", "J", "K", "L", "M",
      "N", "O", "P", "Q", "R", "S", "T", "U", "V", "W", "X", "Y", "Z">>

Digits == {"0", "1", "2", "3", "4", "5", "6", "7", "8", "9"}

\* the lower case of the capital letters and the capital of the others
LowerOf == [ch \in {UpperLetters[i] : i \in 1..Len(UpperLetters)} |->
              LowerLetters[CHOOSE i \in 1..Len(UpperLetters) : UpperLetters[i] = ch]]

UpperOf == [ch \in {LowerLetters[i] : i \in 1..Len(LowerLetters)} |->
              UpperLetters[CHOOSE i \in 1..Len(LowerLetters) : LowerLetters[i] = ch]]

\* String.prototype.toLowerCase and toUpperCase, character by character
LowerChar(ch) == IF ch \in DOMAIN LowerOf THEN LowerOf[ch] ELSE ch

UpperChar(ch) == IF ch \in DOMAIN UpperOf THEN UpperOf[ch] ELSE ch

\* a sequence given by a function on 1..n, as the tuple of its members
Listed(s) == s \o <<>>

Lower(s) == Listed([i \in 1..Len(s) |-> LowerChar(s[i])])

Upper(s) == Listed([i \in 1..Len(s) |-> UpperChar(s[i])])

\* String.prototype.includes and startsWith
Includes(s, part) ==
    \E i \in 0..(Len(s) - Len(part)) : SubSeq(s, i + 1, i + Len(part)) = part

StartsWith(s, part) == Len(part) <= Len(s) /\ SubSeq(s, 1, Len(part)) = part

\* Array.prototype.join(' ')
RECURSIVE JoinWords(_)
JoinWords(list) ==
    IF list = <<>> THEN <<>>
    ELSE IF Len(list) = 1 THEN list[1]
    ELSE list[1] \o <<" ">> \o JoinWords(Tail(list))

\* [a-zA-Z0-9]
IsAlphanumeric(ch) == ch \in Digits \/ ch \in DOMAIN LowerOf \/ ch \in DOMAIN UpperOf

\* text.split(/[^a-zA-Z0-9]+/) without the empty pieces: `word' is the piece
\* being read, `done' the pieces before it
RECURSIVE SplitWords(_, _, _)
SplitWords(text, word, done) ==
    LET closed == IF word = <<>> THEN done ELSE Append(done, word)
    IN  IF text = <<>> THEN closed
        ELSE IF IsAlphanumeric(Head(text))
        THEN SplitWords(Tail(text), Append(word, Head(text)), done)
        ELSE SplitWords(Tail(text), <<>>, closed)

\* isStopWord(word)
StopWords ==
    {<<"t", "h", "e">>, <<"a">>, <<"a", "n">>, <<"a", "n", "d">>,
     <<"o", "r">>, <<"b", "u", "t">>, <<"i", "n">>, <<"o", "n">>,
     <<"a", "t">>, <<"t", "o">>, <<"f", "o", "r">>, <<"o", "f">>,
     <<"w", "i", "t", "h">>, <<"b", "y">>, <<"i", "s">>, <<"a", "r", "e">>,
     <<"w", "a", "s">>, <<"w", "e", "r", "e">>, <<"b", "e">>,
     <<"b", "e", "e", "n">>, <<"h", "a", "v", "e">>, <<"h", "a", "s">>,
     <<"h", "a", "d">>, <<"d", "o">>, <<"d", "o", "e", "s">>,
     <<"d", "i", "d">>, <<"w", "i", "l", "l">>, <<"w", "o", "u", "l", "d">>,
     <<"c", "o", "u", "l", "d">>, <<"s", "h", "o", "u", "l", "d">>,
     <<"m", "a", "y">>, <<"m", "i", "g", "h", "t">>, <<"c", "a", "n">>,
     <<"m", "u", "s", "t">>, <<"t", "h", "i", "s">>, <<"t", "h", "a", "t">>,
     <<"t", "h", "e", "s", "e">>, <<"t", "h", "o", "s", "e">>}

IsStopWord(word) == Lower(word) \in StopWords

\* extractKeywords(text)
ExtractKeywords(text) ==
    SelectSeq(SplitWords(text, <<>>, <<>>),
              LAMBDA word : Len(word) > 1 /\ ~IsStopWord(word))

\* the methods buildLightweightIndex looks for in a path item, in its order
IndexedMethods ==
    <<<<"g", "e", "t">>, <<"p", "o", "s", "t">>, <<"p", "u", "t">>, <<"d", "e", "l", "e", "t", "e">>,
      <<"p", "a", "t", "c", "h">>, <<"o", "p", "t", "i", "o", "n", "s">>, <<"h", "e", "a", "d">>>>

\* operations of the documents, with the members the index reads; a member
\* the operation does not have is empty
ListPets ==
    [summary |-> <<"l", "i", "s", "t", " ", "p", "e", "t", "s">>, description |-> <<>>,
     operationId |-> <<"l", "i", "s", "t", "P", "e", "t", "s">>, tags |-> <<<<"P", "e", "t", "s">>>>]

AddPet ==
    [summary |-> <<>>, description |-> <<"a", "d", "d", " ", "a", " ", "p", "e", "t">>,
     operationId |-> <<>>, tags |-> <<<<"P", "e", "t", "s">>, <<"w", "r", "i", "t", "e">>>>]

GetUser ==
    [summary |-> <<>>, description |-> <<"u", "s", "e", "r", " ", "p", "e", "t", "s">>,
     operationId |-> <<>>, tags |-> <<<<"u", "s", "e", "r", "s">>>>]

Probe == [summary |-> <<>>, description |-> <<>>, operationId |-> <<>>, tags |-> <<>>]

\* path items: a path of the paths table and its operations by method
PathItems ==
    {[path |-> <<"/", "p", "e", "t", "s">>, ops |-> (<<"g", "e", "t">> :> ListPets) @@ (<<"p", "o", "s", "t">> :> AddPet)],
     [path |-> <<"/", "u", "s", "e", "r", "s", "/", "{", "i", "d", "}">>, ops |-> (<<"g", "e", "t">> :> GetUser) @@ (<<"t", "r", "a", "c", "e">> :> Probe)],
     [path |-> <<"/", "p", "e", "t", "s", "/", "{", "i", "d", "}">>, ops |-> (<<"g", "e", "t">> :> Probe) @@ (<<"d", "e", "l", "e", "t", "e">> :> Probe)]}

\* the most path items a document has
MaxPaths == 2

\* the paths tables of the documents: Object.entries order, no path twice
PathTables ==
    {t \in UNION {[1..n -> PathItems] : n \in 0..MaxPaths} :
        \A i, j \in 1..Len(t) : i # j => t[i].path # t[j].path}

\* the operations buildLightweightIndex visits, in its order: every path
\* item, and in it every method of its list that the item has
VisitedOperations(paths) ==
    LET m == Len(IndexedMethods)
    IN  SelectSeq([k \in 1..(Len(paths) * m) |->
                      [item |-> paths[((k - 1) \div m) + 1],
                       method |-> IndexedMethods[((k - 1) % m) + 1]]],
                  LAMBDA x : x.method \in DOMAIN x.item.ops)

\* the EndpointSummary of a visited operation
SummaryOf(x) ==
    LET operation == x.item.ops[x.method]
    IN  [method |-> Upper(x.method), path |-> x.item.path,
         summary |-> operation.summary, description |-> operation.description,
         operationId |-> operation.operationId, tags |-> operation.tags]

\* Map.set on a map kept as the sequence of its entries in insertion order
MapSet(entries, key, value) ==
    IF \E i \in 1..Len(entries) : entries[i].key = key
    THEN [i \in 1..Len(entries) |->
             IF entries[i].key = key THEN [key |-> key, value |-> value] ELSE entries[i]]
    ELSE Append(entries, [key |-> key, value |-> value])

\* map.get(key).push(value), the list made first when the key is new
MapPush(map, key, value) ==
    Put(map, key, IF key \in DOMAIN map THEN Append(map[key], value) ELSE <<value>>)

\* Set.add on a set kept as the sequence of its members in insertion order
SetAdd(members, x) ==
    IF \E i \in 1..Len(members) : members[i] = x THEN members ELSE Append(members, x)

\* calculateRelevance(keyword, path, summary)
CalculateRelevance(keyword, path, summary) ==
    (IF Lower(path) = keyword THEN 100
     ELSE IF Includes(Lower(path), keyword) THEN 80 ELSE 0)
    + (IF Includes(Lower(summary.summary), keyword) /\ summary.summary # <<>>
       THEN 40 ELSE 0)
    + (IF Includes(Lower(summary.description), keyword) /\ summary.description # <<>>
       THEN 30 ELSE 0)
    + (IF \E i \in 1..Len(summary.tags) : Includes(Lower(summary.tags[i]), keyword)
       THEN 50 ELSE 0)
    + (IF Includes(Lower(summary.operationId), keyword) /\ summary.operationId # <<>>
       THEN 60 ELSE 0)

\* addToSearchableIndex(searchableIndex, path, summary)
AddToSearchableIndex(searchableIndex, path, summary) ==
    LET searchText == Lower(JoinWords(<<path, summary.summary, summary.description,
                                        summary.operationId>> \o summary.tags))
        keywords == SelectSeq(ExtractKeywords(searchText), LAMBDA k : Len(k) >= 2)
        added[i \in 0..Len(keywords)] ==
            IF i = 0 THEN searchableIndex
            ELSE MapPush(added[i - 1], keywords[i],
                         [path |-> path,
                          relevance |-> CalculateRelevance(keywords[i], path, summary),
                          method |-> summary.method,
                          description |-> summary.description])
    IN  added[Len(keywords)]

\* the loop of buildLightweightIndex over the visited operations
IndexOperations(visited) ==
    LET empty == [pathIndex |-> <<>>, tagIndex |-> <<>>, searchableIndex |-> <<>>,
                  allTags |-> <<>>, endpointCount |-> 0]
        tagged(acc, tags, path) ==
            LET t[i \in 0..Len(tags)] ==
                    IF i = 0 THEN acc
                    ELSE [t[i - 1] EXCEPT
                            !.allTags = SetAdd(@, tags[i]),
                            !.tagIndex = MapPush(@, tags[i], path)]
            IN  t[Len(tags)]
        built[i \in 0..Len(visited)] ==
            IF i = 0 THEN empty
            ELSE LET summary == SummaryOf(visited[i])
                     key == summary.method \o <<"-">> \o summary.path
                     counted == [built[i - 1] EXCEPT
                                   !.endpointCount = @ + 1,
                                   !.pathIndex = MapSet(@, key, summary)]
                     withTags == tagged(counted, summary.tags, summary.path)
                 IN  [withTags EXCEPT
                        !.searchableIndex =
                            AddToSearchableIndex(@, summary.path, summary)]
    IN  built[Len(visited)]

\* the index buildLightweightIndex returns when its loop ends
IndexOf(all) ==
    [metadata |-> [totalEndpoints |-> all.endpointCount, tags |-> all.allTags],
     tagIndex |-> all.tagIndex,
     pathIndex |-> all.pathIndex,
     searchableIndex |-> all.searchableIndex]

\* buildLightweightIndex(metadata, swaggerUrl): the index of a paths table
BuildLightweightIndex(paths) == IndexOf(IndexOperations(VisitedOperations(paths)))

\* The loader builds the index of a document and callers search it.
SearchUrl == "u1"

SearchSessionId == "s1"

\* createIncrementalIndex(SearchUrl, SearchSessionId) when the source answers
\* with the document whose paths table is `paths': the index the loader
\* holds while it has not expired, and otherwise the document is fetched, its
\* metadata stored, and its index built, stamped and stored
IndexFor(paths) ==
    LET key == GenerateIndexKey(SearchUrl, SearchSessionId)
        built(stored, index) ==
            [loader |-> [stored EXCEPT !.meta[key] = [paths |-> paths],
                                       !.index[key] = index],
             index |-> index, fetched |-> TRUE]
    IN  IF key \in DOMAIN loader.index /\ ~IsIndexExpired(loader.index[key], now)
        THEN [loader |-> loader, index |-> loader.index[key], fetched |-> FALSE]
        ELSE built(StoreFetched(loader, key, "ok", fetches + 1, now),
                   BuildLightweightIndex(paths) @@ [timestamp |-> now])

\* createIncrementalIndex when the loader holds no unexpired index of the key
DoBuildIndex(paths) ==
    \E got \in {IndexFor(paths)} :
        /\ got.fetched
        /\ fetches < MaxFetches
        /\ fetches' = fetches + 1
        /\ loader' = got.loader
        /\ last' = [op |-> "buildIndex", fetch |-> fetches + 1]
        /\ UNCHANGED <<now, cache, sessions, indexCache, calls>>

\* the operations of a paths table: its (method, path) pairs, the method in
\* capitals
OperationsOf(paths) ==
    {<<Upper(m), paths[i].path>> : <<i, m>> \in
        {x \in (1..Len(paths)) \X UNION {DOMAIN paths[i].ops : i \in 1..Len(paths)} :
            x[2] \in DOMAIN paths[x[1]].ops}}

\* C23: the pathIndex of a built index holds one summary for every (method,
\* path) operation of the paths table it was built from, none for any other
\* pair and none twice, and metadata.totalEndpoints is the number of its
\* entries.
C23_PathIndexIsThePathTable ==
    \A key \in DOMAIN loader.index :
        LET index == loader.index[key]
            entries == index.pathIndex
            pairs == {<<entries[i].value.method, entries[i].value.path>> :
                        i \in 1..Len(entries)}
        IN  /\ pairs = OperationsOf(loader.meta[key].paths)
            /\ Cardinality(pairs) = Len(entries)
            /\ index.metadata.totalEndpoints = Len(entries)

\* the concatenation of a sequence of sequences
RECURSIVE FlattenFrom(_, _)
FlattenFrom(lists, i) ==
    IF i > Len(lists) THEN <<>> ELSE lists[i] \o FlattenFrom(lists, i + 1)

Flatten(lists) == FlattenFrom(Listed(lists), 1)

\* Array.prototype.slice(0, end)
Slice(list, end) ==
    LET n == IF end >= 0 THEN end ELSE Len(list) + end
    IN  SubSeq(list, 1, IF n > Len(list) THEN Len(list) ELSE n)

\* a list without the repetitions of its members, in the order of their
\* first occurrences
Distinct(list) ==
    SelectSeq([i \in 1..Len(list) |-> [at |-> i, x |-> list[i]]],
              LAMBDA e : \A j \in 1..(e.at - 1) : list[j] # e.x)

\* deduplicateResults(results): the first result of every method and path
DeduplicateResults(results) ==
    LET numbered == [i \in 1..Len(results) |-> [at |-> i, r |-> results[i]]]
        kept == SelectSeq(numbered,
                          LAMBDA e : \A j \in 1..(e.at - 1) :
                                        \/ results[j].method # e.r.method
                                        \/ results[j].path # e.r.path)
    IN  [i \in 1..Len(kept) |-> kept[i].r]

\* searchByTag(index, tags)
SearchByTag(index, tags) ==
    LET asked == Distinct([i \in 1..Len(tags) |-> Lower(tags[i])])
        tagSet == [i \in 1..Len(asked) |-> asked[i].x]
        ofPath(tag, path) ==
            LET entries == SelectSeq(index.pathIndex, LAMBDA e : e.value.path = path)
            IN  [i \in 1..Len(entries) |->
                    [path |-> path, relevance |-> 100,
                     method |-> entries[i].value.method,
                     description |-> entries[i].value.description, tag |-> tag]]
        ofTag(tag) ==
            LET paths == IF tag \in DOMAIN index.tagIndex THEN index.tagIndex[tag] ELSE <<>>
            IN  Flatten([i \in 1..Len(paths) |-> ofPath(tag, paths[i])])
    IN  DeduplicateResults(Flatten([i \in 1..Len(tagSet) |-> ofTag(tagSet[i])]))

\* the characters createSmartPattern puts a "\" before, and those its
\* fallback puts one before
SmartEscaped == {".", "+", "^", "$", "{", "}", "(", ")", "|", "[", "]", "\\"}

\* a fallback that leaves "*" and "?" as they are
FallbackKeepsWildcards == SmartEscaped

FallbackEscaped == SmartEscaped \cup {"*", "?"}

\* text.replace(/[...]/g, '\\$&'): a "\" before every character of the set
RECURSIVE EscapeChars(_, _)
EscapeChars(text, chars) ==
    IF text = <<>> THEN <<>>
    ELSE (IF Head(text) \in chars THEN <<"\\", Head(text)>> ELSE <<Head(text)>>)
         \o EscapeChars(Tail(text), chars)

\* text.replace(/from/g, to) for a `from' that is plain text
RECURSIVE ReplaceAll(_, _, _)
ReplaceAll(text, from, to) ==
    IF text = <<>> THEN <<>>
    ELSE IF StartsWith(text, from)
    THEN to \o ReplaceAll(SubSeq(text, Len(from) + 1, Len(text)), from, to)
    ELSE <<Head(text)>> \o ReplaceAll(Tail(text), from, to)

\* text.replace(/\\\{[^}]*\\\}/g, '[^/]+'): from a "\{" to the first "}"
\* after it, when a "\" stands before that "}"
RECURSIVE ReplaceParams(_)
ReplaceParams(text) ==
    IF text = <<>> THEN <<>>
    ELSE IF /\ StartsWith(text, <<"\\", "{">>)
            /\ \E j \in 4..Len(text) :
                  /\ text[j] = "}" /\ text[j - 1] = "\\"
                  /\ \A k \in 3..(j - 1) : text[k] # "}"
    THEN LET close == CHOOSE j \in 4..Len(text) :
                         /\ text[j] = "}"
                         /\ \A k \in 3..(j - 1) : text[k] # "}"
         IN  <<"[", "^", "/", "]", "+">>
             \o ReplaceParams(SubSeq(text, close + 1, Len(text)))
    ELSE <<Head(text)>> \o ReplaceParams(Tail(text))

\* the text createSmartPattern hands to new RegExp: the four replacements
SmartPatternSource(pattern) ==
    ReplaceParams(
        ReplaceAll(
            ReplaceAll(EscapeChars(pattern, SmartEscaped),
                       <<"\\", "*">>, <<"[", "^", "/", "]", "*">>),
            <<"\\", "?">>, <<"[", "^", "/", "]">>))

\* new RegExp(source, 'i') for the sources the replacements make: a "\" and
\* the character after it is that character, "[^/]" is a character other than
\* "/", "^" is the beginning of the text, "*", "+" and "?" repeat the
\* character before them and a "?" after one of them changes nothing of what
\* is matched; with nothing to repeat the RegExp is not made (ok is FALSE).
\* `terms' are the terms read and `open' tells what the last of them admits
RECURSIVE ParseRegExp(_, _, _)
ParseRegExp(source, terms, open) ==
    LET ch == Head(source)
        atom(kind, c, n) ==
            ParseRegExp(SubSeq(source, n + 1, Len(source)),
                        Append(terms, [kind |-> kind, ch |-> c, few |-> 1,
                                       many |-> FALSE]),
                        IF kind = "start" THEN "none" ELSE "atom")
    IN  IF source = <<>> THEN [ok |-> TRUE, terms |-> terms]
        ELSE IF ch \in {"*", "+", "?"}
        THEN IF open = "atom"
             THEN ParseRegExp(Tail(source),
                              [terms EXCEPT ![Len(terms)] =
                                  [@ EXCEPT !.few = IF ch = "+" THEN 1 ELSE 0,
                                            !.many = (ch # "?")]],
                              "repeated")
             ELSE IF open = "repeated" /\ ch = "?"
             THEN ParseRegExp(Tail(source), terms, "none")
             ELSE [ok |-> FALSE, terms |-> <<>>]
        ELSE IF ch = "\\"
        THEN IF Len(source) < 2 THEN [ok |-> FALSE, terms |-> <<>>]
             ELSE atom("char", source[2], 2)
        ELSE IF ch = "["
        THEN IF StartsWith(source, <<"[", "^", "/", "]">>)
             THEN atom("notSlash", "", 4)
             ELSE [ok |-> FALSE, terms |-> <<>>]
        ELSE IF ch = "^" THEN atom("start", "", 1)
        ELSE atom("char", ch, 1)

\* whether new RegExp(regexPattern, 'i') is made: the try of createSmartPattern
Compiles(pattern) == ParseRegExp(SmartPatternSource(pattern), <<>>, "none").ok

\* createSmartPattern(pattern): the RegExp of the replaced pattern, and when
\* that is not made the RegExp of the pattern with all its characters plain
CreateSmartPattern(pattern) ==
    LET smart == ParseRegExp(SmartPatternSource(pattern), <<>>, "none")
    IN  IF smart.ok THEN smart.terms
        ELSE ParseRegExp(EscapeChars(pattern, FallbackEscaped), <<>>, "none").terms

\* whether the text from place i on begins with a match of the terms from
\* term r on, letters compared without their case
RECURSIVE MatchesAtStart(_, _, _, _)
MatchesAtStart(regex, r, text, i) ==
    IF r > Len(regex) THEN TRUE
    ELSE IF regex[r].kind = "start"
    THEN i = 1 /\ MatchesAtStart(regex, r + 1, text, i)
    ELSE \E n \in regex[r].few..(IF regex[r].many THEN Len(text) + 1 - i ELSE 1) :
            /\ n <= Len(text) + 1 - i
            /\ \A k \in i..(i + n - 1) :
                  IF regex[r].kind = "notSlash" THEN text[k] # "/"
                  ELSE LowerChar(text[k]) = LowerChar(regex[r].ch)
            /\ MatchesAtStart(regex, r + 1, text, i + n)

\* regex.test(text)
RegexTest(regex, text) ==
    \E i \in 1..(Len(text) + 1) : MatchesAtStart(regex, 1, text, i)

\* a || b for strings
OrElse(a, b) == IF a # <<>> THEN a ELSE b

\* a sort that leaves the matches as they were found
KeepFoundOrder(matches) == matches

\* matches.sort((a, b) => b.relevance - a.relevance): a stable sort, the
\* higher relevance first
SortByRelevance(matches) ==
    LET insert(sorted, x) ==
            LET k == Cardinality({j \in 1..Len(sorted) :
                                    sorted[j].relevance >= x.relevance})
            IN  SubSeq(sorted, 1, k) \o <<x>> \o SubSeq(sorted, k + 1, Len(sorted))
        s[i \in 0..Len(matches)] ==
            IF i = 0 THEN <<>> ELSE insert(s[i - 1], matches[i])
    IN  s[Len(matches)]

\* the matches of searchByPattern in the order the loop finds them
PatternMatches(index, pattern) ==
    LET regex == CreateSmartPattern(pattern)
        lowerPattern == Lower(pattern)
        relevanceOf(summary) ==
            IF summary.path = pattern THEN 100
            ELSE IF Includes(Lower(summary.path), lowerPattern) THEN 80
            ELSE IF RegexTest(regex, summary.path) THEN 60
            ELSE IF /\ summary.description # <<>>
                    /\ Includes(Lower(summary.description), lowerPattern) THEN 40
            ELSE IF /\ summary.summary # <<>>
                    /\ Includes(Lower(summary.summary), lowerPattern) THEN 40
            ELSE 0
        hits == SelectSeq(index.pathIndex, LAMBDA e : relevanceOf(e.value) > 0)
    IN  [i \in 1..Len(hits) |->
            [path |-> hits[i].value.path,
             relevance |-> relevanceOf(hits[i].value),
             method |-> hits[i].value.method,
             description |-> OrElse(hits[i].value.description, hits[i].value.summary)]]

\* searchByPattern(index, pattern)
SearchByPattern(index, pattern) == SortByRelevance(PatternMatches(index, pattern))

\* the synonyms of expandKeywords
Synonyms ==
    (<<"g", "e", "t">> :>
        <<<<"f", "e", "t", "c", "h">>, <<"r", "e", "t", "r", "i", "e", "v", "e">>, <<"r", "e", "a", "d">>>>) @@
    (<<"p", "o", "s", "t">> :>
        <<<<"c", "r", "e", "a", "t", "e">>, <<"a", "d", "d">>, <<"i", "n", "s", "e", "r", "t">>>>) @@
    (<<"p", "u", "t">> :>
        <<<<"u", "p", "d", "a", "t", "e">>, <<"m", "o", "d", "i", "f", "y">>, <<"e", "d", "i", "t">>>>) @@
    (<<"d", "e", "l", "e", "t", "e">> :>
        <<<<"r", "e", "m", "o", "v", "e">>, <<"d", "e", "s", "t", "r", "o", "y">>>>) @@
    (<<"u", "s", "e", "r">> :>
        <<<<"a", "c", "c", "o", "u", "n", "t">>, <<"p", "r", "o", "f", "i", "l", "e">>>>) @@
    (<<"l", "i", "s", "t">> :>
        <<<<"g", "e", "t">>, <<"f", "e", "t", "c", "h">>, <<"r", "e", "t", "r", "i", "e", "v", "e">>>>) @@
    (<<"i", "n", "f", "o">> :>
        <<<<"i", "n", "f", "o", "r", "m", "a", "t", "i", "o", "n">>, <<"d", "e", "t", "a", "i", "l", "s">>>>) @@
    (<<"a", "u", "t", "h">> :>
        <<<<"a", "u", "t", "h", "e", "n", "t", "i", "c", "a", "t", "i", "o", "n">>, <<"l", "o", "g", "i", "n">>>>) @@
    (<<"c", "o", "n", "f", "i", "g">> :>
        <<<<"c", "o", "n", "f", "i", "g", "u", "r", "a", "t", "i", "o", "n">>, <<"s", "e", "t", "t", "i", "n", "g", "s">>>>)

\* expandKeywords(keywords)
ExpandKeywords(keywords) ==
    keywords \o
    Flatten([i \in 1..Len(keywords) |->
                IF Lower(keywords[i]) \in DOMAIN Synonyms
                THEN Synonyms[Lower(keywords[i])] ELSE <<>>])

\* the most results a keyword search returns
KeywordCap == 50

\* an addOrUpdateMatch that raises the relevance of the index's own entries
\* of the path as well
AddOrUpdateMatchInIndex(st, summary, relevance, source) ==
    LET key == summary.method \o <<"-">> \o summary.path
        raised(list) ==
            [i \in 1..Len(list) |->
                IF list[i].path = summary.path
                THEN [list[i] EXCEPT !.relevance = @ + ((relevance * 3) \div 10)]
                ELSE list[i]]
    IN  IF \E i \in 1..Len(st.matches) : st.matches[i].key = key
        THEN LET at == CHOOSE i \in 1..Len(st.matches) : st.matches[i].key = key
             IN  [st EXCEPT
                    !.matches[at].value.relevance = @ + ((relevance * 3) \div 10),
                    !.index.searchableIndex = [k \in DOMAIN @ |-> raised(@[k])]]
        ELSE [st EXCEPT
                !.matches = Append(@, [key |-> key,
                                       value |-> [path |-> summary.path,
                                                  relevance |-> relevance,
                                                  method |-> summary.method,
                                                  description |->
                                                      OrElse(summary.description,
                                                             summary.summary)]])]

\* addOrUpdateMatch(matches, summary, relevance, source) on st, the map of
\* the matches and the index the summary belongs to: a match that is in the
\* map gains three tenths of the relevance, a new one is put into the map as
\* a new object; the index is read only
AddOrUpdateMatch(st, summary, relevance, source) ==
    LET key == summary.method \o <<"-">> \o summary.path
    IN  IF \E i \in 1..Len(st.matches) : st.matches[i].key = key
        THEN LET at == CHOOSE i \in 1..Len(st.matches) : st.matches[i].key = key
             IN  [st EXCEPT
                    !.matches[at].value.relevance = @ + ((relevance * 3) \div 10)]
        ELSE [st EXCEPT
                !.matches = Append(@, [key |-> key,
                                       value |-> [path |-> summary.path,
                                                  relevance |-> relevance,
                                                  method |-> summary.method,
                                                  description |->
                                                      OrElse(summary.description,
                                                             summary.summary)]])]

\* the calls of addOrUpdateMatch that searchByKeywords makes for one
\* keyword, in their order: for every summary its path, description,
\* summary, operationId and tags, then the keyword's list in searchableIndex
KeywordHits(index, keyword) ==
    LET lowerKeyword == Lower(keyword)
        hit(summary, relevance, source) ==
            <<[summary |-> summary, relevance |-> relevance, source |-> source]>>
        ofSummary(summary) ==
            (IF Includes(Lower(summary.path), lowerKeyword)
             THEN hit(summary, 50, "path") ELSE <<>>)
            \o (IF /\ summary.description # <<>>
                   /\ Includes(Lower(summary.description), lowerKeyword)
                THEN hit(summary, 20, "description") ELSE <<>>)
            \o (IF /\ summary.summary # <<>>
                   /\ Includes(Lower(summary.summary), lowerKeyword)
                THEN hit(summary, 30, "summary") ELSE <<>>)
            \o (IF /\ summary.operationId # <<>>
                   /\ Includes(Lower(summary.operationId), lowerKeyword)
                THEN hit(summary, 40, "operationId") ELSE <<>>)
            \o (IF \E i \in 1..Len(summary.tags) :
                      Includes(Lower(summary.tags[i]), lowerKeyword)
                THEN hit(summary, 60, "tag") ELSE <<>>)
        indexMatches == IF lowerKeyword \in DOMAIN index.searchableIndex
                        THEN index.searchableIndex[lowerKeyword] ELSE <<>>
        ofMatch(match) ==
            LET entries == SelectSeq(index.pathIndex,
                                     LAMBDA e : e.value.path = match.path)
            IN  IF entries = <<>> THEN <<>>
                ELSE hit(entries[1].value, match.relevance, "index")
    IN  Flatten([i \in 1..Len(index.pathIndex) |-> ofSummary(index.pathIndex[i].value)])
        \o Flatten([i \in 1..Len(indexMatches) |-> ofMatch(indexMatches[i])])

\* the calls of addOrUpdateMatch that searchByKeywords makes for the
\* expanded keywords, in their order
AllKeywordHits(index, expandedKeywords) ==
    Flatten([i \in 1..Len(expandedKeywords) |->
                KeywordHits(index, expandedKeywords[i])])

\* the map of matches after the calls of addOrUpdateMatch, and the index as
\* the calls leave it
CollectMatches(index, hits) ==
    LET st[i \in 0..Len(hits)] ==
            IF i = 0 THEN [matches |-> <<>>, index |-> index]
            ELSE AddOrUpdateMatch(st[i - 1], hits[i].summary, hits[i].relevance,
                                  hits[i].source)
    IN  st[Len(hits)]

\* the map of matches searchByKeywords has collected when its loops end,
\* and the index as the loops leave it
KeywordMatches(index, keywords) ==
    CollectMatches(index, AllKeywordHits(index, ExpandKeywords(keywords)))

\* filterByMethod that lets every result through
FilterByMethodNothing(results, methods) == results

\* filterByMethod(results, methods)
FilterByMethod(results, methods) ==
    IF methods = <<>> THEN results
    ELSE LET methodSet == {Upper(methods[i]) : i \in 1..Len(methods)}
         IN  SelectSeq(results,
                       LAMBDA r : r.method = <<>> \/ Upper(r.method) \in methodSet)

\* the limit when none is given
DefaultLimit == 20

\* params.limit || 20, for a limit that is a number or not given
LimitOf(limit) == IF limit.given /\ limit.value # 0 THEN limit.value ELSE DefaultLimit

\* what a search strategy gives: the matches in the order the strategy found
\* them (found), what the strategy returned (scored), and the index as the
\* strategy leaves it
Strategy(found, scored, index) == [found |-> found, scored |-> scored, index |-> index]

\* searchByTag as applySearchParams calls it
ByTag(found, index) == Strategy(found, found, index)

\* searchByPattern as applySearchParams calls it
ByPattern(found, index) == Strategy(found, SortByRelevance(found), index)

\* searchByKeywords as applySearchParams calls it: the values of the map,
\* sorted, and the first KeywordCap of them
ByKeywords(st) ==
    Strategy(Listed([i \in 1..Len(st.matches) |-> st.matches[i].value]),
             Slice(SortByRelevance([i \in 1..Len(st.matches) |-> st.matches[i].value]),
                   KeywordCap),
             st.index)

\* the first endpoints of pathIndex, which applySearchParams returns when it
\* is given no tags, no pattern and no keywords
TopEndpoints(top) ==
    Listed([i \in 1..Len(top) |->
               [path |-> top[i].value.path, relevance |-> 10,
                method |-> top[i].value.method,
                description |-> OrElse(top[i].value.description,
                                       top[i].value.summary)]])

\* the strategy applySearchParams chooses
ChooseStrategy(index, params) ==
    IF params.tags # <<>> THEN ByTag(SearchByTag(index, params.tags), index)
    ELSE IF params.pattern # <<>>
    THEN ByPattern(PatternMatches(index, params.pattern), index)
    ELSE IF params.keywords # <<>>
    THEN ByKeywords(KeywordMatches(index, params.keywords))
    ELSE ByTag(TopEndpoints(Slice(index.pathIndex, LimitOf(params.limit))), index)

\* the method filter and the limit of applySearchParams
FilterAndLimit(s, params) ==
    [results |-> Slice(IF params.methods # <<>>
                       THEN FilterByMethod(s.scored, params.methods) ELSE s.scored,
                       LimitOf(params.limit)),
     found |-> s.found, scored |-> s.scored, index |-> s.index]

\* applySearchParams(index, params): the results, with what the strategy
\* found and returned and the index as the search leaves it
ApplySearchParams(index, params) == FilterAndLimit(ChooseStrategy(index, params), params)

\* getSuggestions(index, partial, limit)
GetSuggestions(index, partial, limit) ==
    LET lowerPartial == Lower(partial)
        paths == Distinct([i \in 1..Len(index.pathIndex) |-> index.pathIndex[i].value.path])
        byPath == SelectSeq([i \in 1..Len(paths) |-> paths[i].x],
                            LAMBDA p : StartsWith(Lower(p), lowerPartial))
        pathPart == IF Len(byPath) >= limit THEN SubSeq(byPath, 1, limit) ELSE byPath
        byTag == SelectSeq(index.metadata.tags,
                           LAMBDA t : /\ Includes(Lower(t), lowerPartial)
                                      /\ \A i \in 1..Len(pathPart) : pathPart[i] # t)
        tagPart == IF Len(pathPart) >= limit THEN <<>>
                   ELSE SubSeq(byTag, 1, IF Len(byTag) > limit - Len(pathPart)
                                         THEN limit - Len(pathPart) ELSE Len(byTag))
    IN  Slice(pathPart \o tagPart, limit)

\* the patterns of getPopularEndpoints
PopularPatterns ==
    <<[pattern |-> <<"/", "h", "e", "a", "l", "t", "h">>, relevance |-> 90],
      [pattern |-> <<"/", "s", "t", "a", "t", "u", "s">>, relevance |-> 90],
      [pattern |-> <<"/", "v", "e", "r", "s", "i", "o", "n">>, relevance |-> 80],
      [pattern |-> <<"/", "u", "s", "e", "r", "s">>, relevance |-> 80],
      [pattern |-> <<"/", "a", "u", "t", "h">>, relevance |-> 80],
      [pattern |-> <<"/", "l", "o", "g", "i", "n">>, relevance |-> 80],
      [pattern |-> <<"/", "l", "o", "g", "o", "u", "t">>, relevance |-> 70],
      [pattern |-> <<"/", "p", "r", "o", "f", "i", "l", "e">>, relevance |-> 70],
      [pattern |-> <<"/", "c", "o", "n", "f", "i", "g">>, relevance |-> 60],
      [pattern |-> <<"/", "s", "e", "t", "t", "i", "n", "g", "s">>, relevance |-> 60]>>

\* getPopularEndpoints(index, limit)
GetPopularEndpoints(index, limit) ==
    LET best(i) == Slice(SearchByPattern(index, PopularPatterns[i].pattern), 1)
        popular[i \in 0..Len(PopularPatterns)] ==
            IF i = 0 THEN <<>>
            ELSE LET before == popular[i - 1]
                 IN  IF Len(before) >= limit THEN before ELSE before \o best(i)
    IN  Slice(popular[Len(PopularPatterns)], limit)

\* text.split(separator), for a separator of one character
RECURSIVE SplitBy(_, _, _, _)
SplitBy(text, separator, word, done) ==
    IF text = <<>> THEN Append(done, word)
    ELSE IF Head(text) = separator
    THEN SplitBy(Tail(text), separator, <<>>, Append(done, word))
    ELSE SplitBy(Tail(text), separator, Append(word, Head(text)), done)

\* text.trim(), for a text whose white space is " "
RECURSIVE Trim(_)
Trim(text) ==
    IF text = <<>> THEN text
    ELSE IF Head(text) = " " THEN Trim(Tail(text))
    ELSE IF text[Len(text)] = " " THEN Trim(SubSeq(text, 1, Len(text) - 1))
    ELSE text

\* the SearchParams searchEndpoints builds from the arguments of the tool
BuildSearchParams(searchType, query, methods, limit) ==
    LET trimmed == LET parts == SplitBy(query, ",", <<>>, <<>>)
                   IN  [i \in 1..Len(parts) |-> Trim(parts[i])]
    IN  [limit |-> [given |-> TRUE, value |-> LimitOf(limit)],
         methods |-> methods,
         keywords |-> IF searchType = "keywords"
                      THEN SelectSeq(SplitBy(query, " ", <<>>, <<>>),
                                     LAMBDA k : Len(k) > 0)
                      ELSE <<>>,
         tags |-> IF searchType = "tags"
                  THEN SelectSeq(trimmed, LAMBDA k : Len(k) > 0) ELSE <<>>,
         pattern |-> IF searchType = "pattern" THEN query ELSE <<>>]

\* the queries of the searches
SearchQueries ==
    [keywords |-> {<<"p", "e", "t", "s", " ", "u", "s", "e", "r">>, <<"l", "i", "s", "t">>},
     tags |-> {<<"P", "e", "t", "s">>, <<"p", "e", "t", "s">>, <<"u", "s", "e", "r", "s", ",", " ", "w", "r", "i", "t", "e">>},
     pattern |-> {<<"p", "e", "t", "s">>, <<"/", "{", "a", "}", "/", "{", "b", "}">>, <<>>}]

SearchTypes == DOMAIN SearchQueries

NoLimit == [given |-> FALSE, value |-> 0]

\* the method filters and the limits of the searches: no filter and filters
\* in either case, no limit and the limits 0, 1 and 2
SearchOptions ==
    {[methods |-> <<>>, limit |-> NoLimit],
     [methods |-> <<<<"g", "e", "t">>>>, limit |-> [given |-> TRUE, value |-> 1]],
     [methods |-> <<<<"P", "O", "S", "T">>, <<"d", "e", "l", "e", "t", "e">>>>, limit |-> [given |-> TRUE, value |-> 2]],
     [methods |-> <<>>, limit |-> [given |-> TRUE, value |-> 0]]}

\* searchEndpoints for a valid session: the index is got from
\* createIncrementalIndex and searched with the parameters built from the
\* arguments
DoSearchEndpoints(paths, searchType, query, methods, limit) ==
    \E got \in {IndexFor(paths)},
       params \in {BuildSearchParams(searchType, query, methods, limit)} :
        \E r \in {ApplySearchParams(got.index, params)} :
            /\ got.fetched => fetches < MaxFetches
            /\ fetches' = IF got.fetched THEN fetches + 1 ELSE fetches
            /\ loader' = [got.loader EXCEPT
                            !.index[GenerateIndexKey(SearchUrl, SearchSessionId)] =
                                r.index]
            /\ last' = [op |-> "search", searchType |-> searchType, query |-> query,
                        methods |-> methods, limit |-> limit, params |-> params,
                        fetched |-> got.fetched, found |-> r.found,
                        scored |-> r.scored, results |-> r.results]
            /\ UNCHANGED <<now, cache, sessions, indexCache, calls>>

\* the beginnings asked suggestions for
Partials == {<<"/", "P">>}

\* the limits asked suggestions with
SuggestionLimits == {1, 5}

\* getSearchSuggestions: the index is got from createIncrementalIndex, and
\* getSuggestions and getPopularEndpoints read it
DoGetSearchSuggestions(paths, partial, limit) ==
    \E got \in {IndexFor(paths)} :
        /\ got.fetched => fetches < MaxFetches
        /\ fetches' = IF got.fetched THEN fetches + 1 ELSE fetches
        /\ loader' = got.loader
        /\ last' = [op |-> "suggest", partial |-> partial, limit |-> limit,
                    fetched |-> got.fetched,
                    suggestions |-> GetSuggestions(got.index, partial, limit),
                    popular_endpoints |-> GetPopularEndpoints(got.index, limit)]
        /\ UNCHANGED <<now, cache, sessions, indexCache, calls>>

\* the fetched documents a call draws from: none when the loader holds an
\* unexpired index of the key, for then no document is fetched
Fetchable ==
    LET key == GenerateIndexKey(SearchUrl, SearchSessionId)
    IN  IF key \in DOMAIN loader.index /\ ~IsIndexExpired(loader.index[key], now)
        THEN {<<>>} ELSE PathTables

NextSearch ==
    \/ \E paths \in PathTables : DoBuildIndex(paths)
    \/ \E paths \in Fetchable, searchType \in SearchTypes, options \in SearchOptions :
          \E query \in SearchQueries[searchType] :
              DoSearchEndpoints(paths, searchType, query, options.methods,
                                options.limit)
    \/ \E paths \in Fetchable, partial \in Partials, limit \in SuggestionLimits :
          DoGetSearchSuggestions(paths, partial, limit)
    \/ DoLoaderClearCache

\* the loader and the retriever: an index is built, searched and dropped
SpecSearch == InitService /\ [][NextSearch]_vars

\* the key of the index the searches read
SearchKey == GenerateIndexKey(SearchUrl, SearchSessionId)

\* C26: a search or a request for suggestions leaves the index the loader
\* holds as it is: with an index held the step changes nothing of
\* loader.index, the index a request has built is stored as it was built, and
\* the index of a key changes in no step but one that builds it from a
\* fetched document.
C26_QueriesLeaveTheIndexAlone ==
    [][/\ (last' # last /\ last'.op \in {"search", "suggest"} /\ ~last'.fetched)
            => loader'.index = loader.index
       /\ (last' # last /\ last'.op \in {"search", "suggest"} /\ last'.fetched)
            => /\ fetches' = fetches + 1
               /\ loader'.index[SearchKey] =
                     BuildLightweightIndex(loader'.meta[SearchKey].paths)
                     @@ [timestamp |-> now]
       /\ \A key \in DOMAIN loader.index \cap DOMAIN loader'.index :
             loader'.index[key] # loader.index[key] => fetches' = fetches + 1
      ]_vars

\* a keyword search has read an index the loader held, and a match of it was
\* found more than once
C26_Witness ==
    /\ last.op = "search"
    /\ last.searchType = "keywords"
    /\ ~last.fetched
    /\ \E i \in 1..Len(last.results) : last.results[i].relevance > 60
    /\ SearchKey \in DOMAIN loader.index

\* the place of a result among the matches a search found
PlaceIn(list, r) ==
    CHOOSE k \in 1..Len(list) : list[k].method = r.method /\ list[k].path = r.path

\* C27: the results of a search have relevances that are not negative and do
\* not increase along the list, and results of the same relevance are in the
\* order in which the search found them.
C27_ResultsAreRanked ==
    last.op = "search" =>
        /\ \A i \in 1..Len(last.results) : last.results[i].relevance >= 0
        /\ \A i, j \in 1..Len(last.results) :
              i < j =>
                /\ last.results[i].relevance >= last.results[j].relevance
                /\ last.results[i].relevance = last.results[j].relevance
                      => PlaceIn(last.found, last.results[i])
                            < PlaceIn(last.found, last.results[j])

\* a pattern search has put a match before one that was found earlier, and
\* has returned two matches of the same relevance
C27_Witness ==
    /\ last.op = "search"
    /\ last.searchType = "pattern"
    /\ \E i, j \in 1..Len(last.results) :
          /\ i < j
          /\ PlaceIn(last.found, last.results[i]) > PlaceIn(last.found, last.results[j])
    /\ \E i, j \in 1..Len(last.results) :
          i < j /\ last.results[i].relevance = last.results[j].relevance

\* whether a method is one of the methods of a filter, letters compared
\* without their case
IsOneOf(method, methods) ==
    \E i \in 1..Len(methods) :
        /\ Len(methods[i]) = Len(method)
        /\ \A c \in 1..Len(method) :
              \/ methods[i][c] = method[c]
              \/ <<methods[i][c], method[c]>> \in
                    {<<LowerLetters[n], UpperLetters[n]>> : n \in 1..Len(LowerLetters)}
                    \cup {<<UpperLetters[n], LowerLetters[n]>> : n \in 1..Len(LowerLetters)}

\* C28: with a method filter every result has a method of the filter,
\* whatever the case of its letters, is one of the scored matches with the
\* relevance it was scored, and the results are in the order of the scored
\* matches.
C28_FilterKeepsScoredMatches ==
    (last.op = "search" /\ last.methods # <<>>) =>
        /\ \A i \in 1..Len(last.results) :
              /\ IsOneOf(last.results[i].method, last.methods)
              /\ \E k \in 1..Len(last.scored) : last.scored[k] = last.results[i]
        /\ \A i, j \in 1..Len(last.results) :
              i < j => PlaceIn(last.scored, last.results[i])
                          < PlaceIn(last.scored, last.results[j])

\* a filter written in both cases has removed scored matches and has let two
\* through
C28_Witness ==
    /\ last.op = "search"
    /\ last.methods = <<<<"P", "O", "S", "T">>, <<"d", "e", "l", "e", "t", "e">>>>
    /\ Len(last.results) = 2
    /\ Len(last.scored) > 2
    /\ last.results[1].method # last.results[2].method

\* C29: a search returns no more results than the limit it was given, and no
\* more than 20 when it was given none, and a keyword search passes on no
\* more than 50 matches.
C29_ResultsWithinLimit ==
    last.op = "search" =>
        /\ Len(last.results) <= (IF last.limit.given THEN last.limit.value ELSE 20)
        /\ last.searchType = "keywords" => Len(last.scored) <= 50

\* C30: a tag search returns, for every tag asked for and every tag of an
\* operation that differs from it in the case of letters at most, the
\* operations that carry the tag, each with relevance 1.0 and none twice.
C30_TagSearchIgnoresCase ==
    (last.op = "search" /\ last.searchType = "tags"
        /\ SearchKey \in DOMAIN loader.index) =>
        LET entries == loader.index[SearchKey].pathIndex
        IN  /\ \A r \in 1..Len(last.params.tags), e \in 1..Len(entries) :
                  (\E t \in 1..Len(entries[e].value.tags) :
                      /\ Len(entries[e].value.tags[t]) = Len(last.params.tags[r])
                      /\ IsOneOf(entries[e].value.tags[t], <<last.params.tags[r]>>))
                  => \E k \in 1..Len(last.scored) :
                        /\ last.scored[k].method = entries[e].value.method
                        /\ last.scored[k].path = entries[e].value.path
            /\ \A k \in 1..Len(last.scored) : last.scored[k].relevance = 100
            /\ \A k, n \in 1..Len(last.scored) :
                  (/\ last.scored[k].method = last.scored[n].method
                   /\ last.scored[k].path = last.scored[n].path) => k = n

\* whether an operation carries one of the tags a tag search looks up: the
\* requested tags in lower case
CarriesAskedTag(summary, tags) ==
    \E t \in 1..Len(summary.tags), r \in 1..Len(tags) :
        summary.tags[t] = Lower(tags[r])

\* C31: a tag search returns one result for every operation (method, path)
\* that carries a tag it looks up, and no result for an operation that
\* carries none of them, whatever the other methods of its path carry.
C31_TagSearchReturnsTaggedOperations ==
    (last.op = "search" /\ last.searchType = "tags"
        /\ SearchKey \in DOMAIN loader.index) =>
        LET entries == loader.index[SearchKey].pathIndex
        IN  /\ \A e \in 1..Len(entries) :
                  CarriesAskedTag(entries[e].value, last.params.tags)
                  => Cardinality({k \in 1..Len(last.scored) :
                                    /\ last.scored[k].method = entries[e].value.method
                                    /\ last.scored[k].path = entries[e].value.path}) = 1
            /\ \A k \in 1..Len(last.scored) :
                  \E e \in 1..Len(entries) :
                      /\ entries[e].value.method = last.scored[k].method
                      /\ entries[e].value.path = last.scored[k].path
                      /\ CarriesAskedTag(entries[e].value, last.params.tags)

-----------------------------------------------------------------------------
(* Pattern searches and the popular endpoints, which are found by pattern   *)
(* searches.                                                                *)

\* the path items of the documents the patterns are tried on: those of the
\* searches and a path that holds two of the popular fragments
PatternItems ==
    PathItems \cup
    {[path |-> <<"/", "a", "u", "t", "h", "/", "l", "o", "g", "i", "n">>,
      ops |-> (<<"p", "o", "s", "t">> :> Probe)]}

PatternTables ==
    {t \in UNION {[1..n -> PatternItems] : n \in 0..MaxPaths} :
        \A i, j \in 1..Len(t) : i # j => t[i].path # t[j].path}

\* the patterns asked for: plain text, parameters in braces, a brace that is
\* not closed, a "*" with nothing before it, a "*" and a "?" inside a segment
PatternQueries ==
    {<<"p", "e", "t", "s">>, <<"/", "{", "a", "}", "/", "{", "b", "}">>,
     <<"/", "{", "i", "d">>, <<"*", "p", "e", "t", "s">>,
     <<"/", "p", "*", "s">>, <<"/", "p", "?", "t", "s">>}

\* the fetched documents a pattern search or a request for suggestions draws
\* from: none when the loader holds an unexpired index of the key
FetchablePatterns ==
    IF SearchKey \in DOMAIN loader.index /\ ~IsIndexExpired(loader.index[SearchKey], now)
    THEN {<<>>} ELSE PatternTables

NextPatterns ==
    \/ \E paths \in FetchablePatterns, query \in PatternQueries :
          DoSearchEndpoints(paths, "pattern", query, <<>>, NoLimit)
    \/ \E paths \in FetchablePatterns, partial \in Partials, limit \in SuggestionLimits :
          DoGetSearchSuggestions(paths, partial, limit)
    \/ DoLoaderClearCache

\* the loader and the retriever: an index is built, searched by pattern,
\* asked for its popular endpoints, and dropped
SpecPatterns == InitService /\ [][NextPatterns]_vars

\* whether an operation of the index is among the matches of a search
IsReturned(summary, results) ==
    \E k \in 1..Len(results) :
        results[k].method = summary.method /\ results[k].path = summary.path

\* C32: a pattern search ends with results for every pattern: the RegExp of
\* the fallback is always made; every operation whose path holds the pattern
\* as it is written is returned; and when the RegExp of the pattern is not
\* made, what is returned are the operations whose path, description or
\* summary holds the pattern as a piece of text, letters compared without
\* their case.
C32_PatternSearchFallsBack ==
    (last.op = "search" /\ last.searchType = "pattern" /\ last.params.pattern # <<>>
        /\ SearchKey \in DOMAIN loader.index) =>
        LET entries == loader.index[SearchKey].pathIndex
            pattern == last.params.pattern
            holds(text) == text # <<>> /\ Includes(Lower(text), Lower(pattern))
        IN  /\ ParseRegExp(EscapeChars(pattern, FallbackEscaped), <<>>, "none").ok
            /\ \A e \in 1..Len(entries) :
                  Includes(entries[e].value.path, pattern)
                  => IsReturned(entries[e].value, last.results)
            /\ ~Compiles(pattern) =>
                  \A e \in 1..Len(entries) :
                      IsReturned(entries[e].value, last.results)
                      <=> \/ holds(entries[e].value.path)
                          \/ holds(entries[e].value.description)
                          \/ holds(entries[e].value.summary)

\* a pattern with a brace that is not closed has been searched for, and the
\* operations whose path holds it as it is written were returned
C32_Witness ==
    /\ last.op = "search"
    /\ last.searchType = "pattern"
    /\ \E i \in 1..Len(last.params.pattern) :
          /\ last.params.pattern[i] = "{"
          /\ \A j \in 1..Len(last.params.pattern) : last.params.pattern[j] # "}"
    /\ last.results # <<>>
    /\ \A k \in 1..Len(last.results) :
          Includes(last.results[k].path, last.params.pattern)

\* whether the whole of a path is matched by a path glob: "*" is any run of
\* characters other than "/", "?" one such character, "{name}" one segment,
\* and every other character itself
RECURSIVE GlobMatches(_, _)
GlobMatches(glob, path) ==
    LET run(few, rest) ==
            \E n \in few..Len(path) :
                /\ \A k \in 1..n : path[k] # "/"
                /\ GlobMatches(rest, SubSeq(path, n + 1, Len(path)))
    IN  IF glob = <<>> THEN path = <<>>
        ELSE IF Head(glob) = "*" THEN run(0, Tail(glob))
        ELSE IF Head(glob) = "?"
        THEN path # <<>> /\ Head(path) # "/" /\ GlobMatches(Tail(glob), Tail(path))
        ELSE IF Head(glob) = "{" /\ \E i \in 2..Len(glob) : glob[i] = "}"
        THEN run(1, SubSeq(glob,
                           1 + CHOOSE i \in 2..Len(glob) :
                                  glob[i] = "}" /\ \A j \in 2..(i - 1) : glob[j] # "}",
                           Len(glob)))
        ELSE path # <<>> /\ Head(path) = Head(glob)
             /\ GlobMatches(Tail(glob), Tail(path))

\* C33: a pattern search reads its pattern as a path glob: every operation
\* whose path the glob matches is returned ("*" any run of characters other
\* than "/", "?" one such character, "{name}" one segment).
C33_PatternIsAPathGlob ==
    (last.op = "search" /\ last.searchType = "pattern" /\ last.params.pattern # <<>>
        /\ SearchKey \in DOMAIN loader.index) =>
        \A e \in 1..Len(loader.index[SearchKey].pathIndex) :
            GlobMatches(last.params.pattern, loader.index[SearchKey].pathIndex[e].value.path)
            => IsReturned(loader.index[SearchKey].pathIndex[e].value, last.results)

-----------------------------------------------------------------------------
(* Claims about the facade's sessions and the builds of its indexes *)

\* C34: configureSession reports "created" when the registry held no session
\* of the id before the call, and "updated" when it held one.
C34_StatusTellsCreatedFromUpdated ==
    last.op = "configure" => (last.result = "created" <=> ~last.existed)

\* C35: an index comes into the index cache only under the key of a session
\* the registry holds at that moment: a build that ends after its session was
\* removed or swept is not cached under the session's key.
C35_CachedOnlyForExistingSession ==
    [][\A key \in IndexKeys(indexCache') \ IndexKeys(indexCache) :
          HasSession(sessions', key[2])]_vars

\* C36: of two builds of one key that overlap, the index of the fetch that
\* started later stays in the index cache: no step puts, in place of the
\* index the cache holds for a key, the index of a fetch that started before
\* the fetch of that index (fetches are numbered in the order they start).
C36_LaterBuildIsKept ==
    [][\A key \in IndexKeys(indexCache) \cap IndexKeys(indexCache') :
          indexCache'.ent[key].data.fetch >= indexCache.ent[key].data.fetch]_vars

-----------------------------------------------------------------------------
(* Claims about the results of the searches (SpecSearch) *)

\* the operations that match the query of a search: what the strategy found,
\* and every operation of the index when the search has no query
MatchingOperations(search, index) ==
    IF search.params.tags = <<>> /\ search.params.pattern = <<>>
       /\ search.params.keywords = <<>>
    THEN [i \in 1..Len(index.pathIndex) |-> index.pathIndex[i].value]
    ELSE search.found

\* C37: a search returns min(N, limit) results, N being the number of
\* operations that match its query and have a method of its method filter,
\* and the limit being 20 when none is given; so with the default listing.
C37_ReturnsAsManyAsMatch ==
    (last.op = "search" /\ SearchKey \in DOMAIN loader.index) =>
        LET matching == MatchingOperations(last, loader.index[SearchKey])
            n == Cardinality({k \in 1..Len(matching) :
                                \/ last.methods = <<>>
                                \/ IsOneOf(matching[k].method, last.methods)})
            limit == LimitOf(last.limit)
        IN  Len(last.results) = IF n < limit THEN n ELSE limit

\* what searchByKeywords returns for a list of keywords
KeywordResults(index, keywords) == ByKeywords(KeywordMatches(index, keywords)).scored

\* C38: a keyword search returns, for its keywords in any other order, the
\* same operations, each with the same relevance, in the same order.
C38_KeywordOrderIsIrrelevant ==
    (last.op = "search" /\ last.searchType = "keywords"
        /\ SearchKey \in DOMAIN loader.index) =>
        \A p \in Permutations(1..Len(last.params.keywords)) :
            LET other == KeywordResults(loader.index[SearchKey],
                                        [i \in 1..Len(last.params.keywords) |->
                                            last.params.keywords[p[i]]])
            IN  /\ Len(other) = Len(last.scored)
                /\ \A i \in 1..Len(other) :
                      /\ other[i].method = last.scored[i].method
                      /\ other[i].path = last.scored[i].path
                      /\ other[i].relevance = last.scored[i].relevance

\* C39: in a keyword search every entry of the keyword index adds its
\* relevance to the result of the operation (method, path) it was recorded
\* for: the calls of addOrUpdateMatch made for the entries of a keyword are
\* made, in the order of the entries, with the summaries of their operations.
C39_IndexEntryCreditsItsOperation ==
    (last.op = "search" /\ last.searchType = "keywords"
        /\ SearchKey \in DOMAIN loader.index) =>
        LET index == loader.index[SearchKey]
            expanded == ExpandKeywords(last.params.keywords)
        IN  \A n \in 1..Len(expanded) :
                LET credited == SelectSeq(KeywordHits(index, expanded[n]),
                                          LAMBDA h : h.source = "index")
                    entries == IF Lower(expanded[n]) \in DOMAIN index.searchableIndex
                               THEN index.searchableIndex[Lower(expanded[n])] ELSE <<>>
                IN  /\ Len(credited) = Len(entries)
                    /\ \A i \in 1..Len(entries) :
                          /\ credited[i].summary.method = entries[i].method
                          /\ credited[i].summary.path = entries[i].path
                          /\ credited[i].relevance = entries[i].relevance

\* whether an operation is the best match of fragment n of
\* getPopularEndpoints: the first result of the pattern search for it
IsBestOf(index, r, n) ==
    LET best == Slice(SearchByPattern(index, PopularPatterns[n].pattern), 1)
    IN  best # <<>> /\ best[1].method = r.method /\ best[1].path = r.path

\* C40: the list of popular endpoints has no operation (method, path) twice,
\* no more entries than the limit, and its entries are best matches of
\* fragments in the order of the list of fragments.
C40_PopularEndpointsAreDistinct ==
    (last.op = "suggest" /\ SearchKey \in DOMAIN loader.index) =>
        LET popular == last.popular_endpoints
            index == loader.index[SearchKey]
            fragments == 1..Len(PopularPatterns)
        IN  /\ \A i, j \in 1..Len(popular) :
                  (popular[i].method = popular[j].method
                   /\ popular[i].path = popular[j].path) => i = j
            /\ Len(popular) <= last.limit
            /\ \A i \in 1..Len(popular) :
                  \E a \in fragments : IsBestOf(index, popular[i], a)
            /\ \A i, j \in 1..Len(popular) :
                  i < j => \E a, b \in fragments :
                              /\ a < b
                              /\ IsBestOf(index, popular[i], a)
                              /\ IsBestOf(index, popular[j], b)

====
